---- MODULE Spec2Model ----
(***************************************************************************)
(* A model of the note browser: the browse projector (src/src/browse.rs),  *)
(* the application state (src/src/app.rs) and the key-event loop           *)
(* (src/src/ui.rs, run_app).                                               *)
(*                                                                         *)
(* Strings are sequences of character codes (ASCII), so that the byte      *)
(* order used by sort() and the character classes used by the key          *)
(* handlers are the ones of the program.  A path is the sequence of its    *)
(* components; the notes directory named by the settings is kept as one    *)
(* leading component, so two different notes_directory strings denote two  *)
(* unrelated directories.  Option<T> is a sequence of length 0 (None) or   *)
(* 1 (Some).  Indices into the row list are 0-based as in the program.     *)
(***************************************************************************)
EXTENDS Integers, Sequences, FiniteSets, TLC

VARIABLES
    current_screen,         \* App.current_screen
    current_file,           \* App.current_file : Option<path>
    note_name_input,        \* App.note_name_input
    folder_name_input,      \* App.folder_name_input
    settings,               \* App.settings
    settings_field_inputs,  \* App.settings_field_inputs : [String; 3]
    active_settings_field,  \* App.active_settings_field : Option<SettingsField>
    selected,               \* App.browse_list_state.selected() : Option<usize>
    browse_items,           \* App.browse_items : Vec<(display_text, is_file)>
    browse_paths,           \* App.browse_paths : Vec<Option<PathBuf>>
    expanded_folders,       \* App.expanded_folders : HashSet<PathBuf>
    target_directory,       \* App.target_directory : Option<PathBuf>
    fs_dirs,                \* the directories that exist on disk
    fs_files,               \* the regular files that exist on disk
    fs_written,             \* the regular files that hold text (are not empty)
    settings_file,          \* what is stored at Settings::settings_path()
    terminal,               \* "tui" (raw mode, alternate screen) or "normal"
    running                 \* FALSE once run_app has returned

appVars == <<current_screen, current_file, note_name_input, folder_name_input,
             settings, settings_field_inputs, active_settings_field, selected,
             browse_items, browse_paths, expanded_folders, target_directory>>
envVars == <<fs_dirs, fs_files, fs_written, settings_file, terminal, running>>
vars == <<appVars, envVars>>

-----------------------------------------------------------------------------
(* Bounds of the model.                                                    *)

MaxCreated == 1      \* notes and folders the program adds to the disk in Spec
MaxNameLen == 1      \* characters accepted into a name buffer
MaxFieldLen == 2     \* characters accepted into a settings buffer
MaxNodes == 5        \* entries below the root in SpecProj
MaxDepth == 3        \* depth of an entry below the root in SpecProj
NumTimes == 1        \* instants the clock is read at

-----------------------------------------------------------------------------
(* Option, strings, paths.                                                 *)

None == <<>>
Some(x) == <<x>>
IsSome(o) == Len(o) = 1
Unwrap(o) == o[1]

Range(s) == {s[i] : i \in 1..Len(s)}

\* str::cmp / OsStr::cmp as "less": lexicographic on the bytes from
\* position k on, a proper prefix first.
RECURSIVE StrLessFrom(_, _, _)
StrLessFrom(a, b, k) ==
    IF k > Len(a) THEN k <= Len(b)
    ELSE IF k > Len(b) THEN FALSE
    ELSE IF a[k] = b[k] THEN StrLessFrom(a, b, k + 1)
    ELSE a[k] < b[k]
StrLess(a, b) == StrLessFrom(a, b, 1)

\* Path::cmp as "less": lexicographic on the components, each compared as
\* a string.
RECURSIVE PathLessFrom(_, _, _)
PathLessFrom(p, q, k) ==
    IF k > Len(p) THEN k <= Len(q)
    ELSE IF k > Len(q) THEN FALSE
    ELSE IF p[k] = q[k] THEN PathLessFrom(p, q, k + 1)
    ELSE StrLess(p[k], q[k])
PathLess(p, q) == PathLessFrom(p, q, 1)

\* Path::parent: None for a path of one component (the notes directory is
\* the outermost directory of the model).
Parent(p) == IF Len(p) <= 1 THEN None ELSE Some(SubSeq(p, 1, Len(p) - 1))

\* Path::file_name
FileName(p) == p[Len(p)]

\* Path::join with a single-component name
Join(dir, name) == Append(dir, name)

\* Path::is_dir / Path::is_file / Path::exists against the disk
IsDir(p, dirs) == p \in dirs
IsFile(p, files) == p \in files
Exists(p, dirs, files) == p \in dirs \/ p \in files

\* Path::new(&settings.notes_directory)
BaseDir(s) == <<s.notes_directory>>

\* p is a strict descendant of dir
IsUnder(p, dir) == Len(p) > Len(dir) /\ SubSeq(p, 1, Len(dir)) = dir

-----------------------------------------------------------------------------
(* The projector, src/src/browse.rs.                                       *)

\* should_show_path: walk the parents of path up to base_dir.
RECURSIVE ShowWalk(_, _, _)
ShowWalk(current, base_dir, expanded) ==
    LET parent == Parent(current) IN
    IF ~IsSome(parent) THEN TRUE
    ELSE IF Unwrap(parent) = base_dir THEN TRUE
    ELSE IF Unwrap(parent) \notin expanded THEN FALSE
    ELSE ShowWalk(Unwrap(parent), base_dir, expanded)

should_show_path(path, base_dir, expanded) ==
    IF path = base_dir THEN FALSE ELSE ShowWalk(path, base_dir, expanded)

\* A variant of the sort with the comparison reversed.
RECURSIVE SortPathsDescending(_)
SortPathsDescending(S) ==
    IF S = {} THEN <<>>
    ELSE CHOOSE r \in {<<m>> \o SortPathsDescending(S \ {m}) :
                        m \in {x \in S : \A y \in S \ {x} : PathLess(y, x)}} : TRUE

\* Vec<PathBuf>::sort of the elements of a set: ascending by Path::cmp (the
\* least element, then the rest sorted).
RECURSIVE SortPaths(_)
SortPaths(S) ==
    IF S = {} THEN <<>>
    ELSE CHOOSE r \in {<<m>> \o SortPaths(S \ {m}) :
                        m \in {x \in S : \A y \in S \ {x} : PathLess(x, y)}} : TRUE

\* Vec::sort of a vector of paths.
SortVec(v) == SortPaths(Range(v))

\* glob(base_dir/**/*): every entry below base_dir, base_dir itself left
\* out (browse.rs:92-97); nothing when base_dir does not exist.
GlobAll(base_dir, dirs, files) ==
    IF base_dir \notin dirs THEN {}
    ELSE {p \in dirs \cup files : IsUnder(p, base_dir)}

\* The retained vector of paths_by_parent under key `parent`, in the order
\* of insertion (all_paths is sorted before the grouping loop).
paths_by_parent(all_paths, parent, base_dir, expanded) ==
    SelectSeq(all_paths,
              LAMBDA p : should_show_path(p, base_dir, expanded)
                         /\ Parent(p) = Some(parent))

\* One row of the list: the display text (glyph, indent, expand indicator,
\* name) and the is_file flag, with the parallel path entry.
DirText(depth, is_expanded, name) ==
    [glyph |-> "dir", indent |-> depth, expanded |-> is_expanded, name |-> name]
FileText(depth, name) ==
    [glyph |-> "file", indent |-> depth, expanded |-> FALSE, name |-> name]
RootText == [glyph |-> "Root", indent |-> 0, expanded |-> FALSE, name |-> <<>>]
ErrorText == [glyph |-> "Error", indent |-> 0, expanded |-> FALSE, name |-> <<>>]

Row(text, is_file, path) == [text |-> text, is_file |-> is_file, path |-> path]

\* A variant of browse.rs:56 with the membership test inverted.
IsExpandedInverted(child_path, expanded, dirs) ==
    IsDir(child_path, dirs) /\ child_path \notin expanded

\* browse.rs:56
IsExpanded(child_path, expanded, dirs) ==
    IsDir(child_path, dirs) /\ child_path \in expanded

ChildRow(child_path, expanded, dirs, files, depth) ==
    LET is_expanded == IsExpanded(child_path, expanded, dirs)
        text == IF IsDir(child_path, dirs)
                THEN DirText(depth, is_expanded, FileName(child_path))
                ELSE FileText(depth, FileName(child_path))
    IN  Row(text, IsFile(child_path, files), Some(child_path))

\* add_directory_items: the rows pushed for dir_path, as a sequence of
\* Row records (items and paths are pushed together, browse.rs:68-69).
RECURSIVE add_directory_items(_, _, _, _, _, _, _)
RECURSIVE AddChildren(_, _, _, _, _, _, _)
AddChildren(children, base_dir, expanded, all_paths, dirs, files, depth) ==
    IF children = <<>> THEN <<>>
    ELSE CHOOSE rows \in
           {<<ChildRow(child_path, expanded, dirs, files, depth)>>
              \o (IF IsExpanded(child_path, expanded, dirs)
                  THEN add_directory_items(child_path, base_dir, expanded,
                                           all_paths, dirs, files, depth + 1)
                  ELSE <<>>)
              \o AddChildren(rest, base_dir, expanded, all_paths, dirs, files,
                             depth) :
            child_path \in {Head(children)}, rest \in {Tail(children)}} : TRUE

add_directory_items(dir_path, base_dir, expanded, all_paths, dirs, files, depth) ==
    CHOOSE rows \in
        {AddChildren(sorted_children, base_dir, expanded, all_paths, dirs, files,
                     depth) :
         sorted_children \in
            {SortVec(paths_by_parent(all_paths, dir_path, base_dir, expanded))}} :
        TRUE

\* get_files_as_list_items_with_paths, the Ok value: the Root header and
\* then the rows of the tree.
get_files_as_list_items_with_paths(s, expanded, dirs, files) ==
    LET base_dir == BaseDir(s) IN
    CHOOSE rows \in
        {<<Row(RootText, FALSE, None)>>
            \o add_directory_items(base_dir, base_dir, expanded, all_paths,
                                   dirs, files, 1) :
         all_paths \in {SortPaths(GlobAll(base_dir, dirs, files))}} : TRUE

ItemsOf(rows) == [i \in 1..Len(rows) |-> <<rows[i].text, rows[i].is_file>>]
PathsOf(rows) == [i \in 1..Len(rows) |-> rows[i].path]

-----------------------------------------------------------------------------
(* Characters and names.                                                   *)

\* char::is_alphanumeric, char::is_control, char::is_whitespace (ASCII)
is_alphanumeric(c) == c \in 48..57 \/ c \in 65..90 \/ c \in 97..122
is_control(c) == c < 32 \/ c = 127
is_whitespace(c) == c = 32 \/ c \in 9..13

\* str::trim
RECURSIVE TrimStart(_)
TrimStart(s) ==
    IF s # <<>> /\ is_whitespace(Head(s)) THEN TrimStart(Tail(s)) ELSE s
RECURSIVE TrimEnd(_)
TrimEnd(s) ==
    IF s # <<>> /\ is_whitespace(s[Len(s)])
    THEN TrimEnd(SubSeq(s, 1, Len(s) - 1)) ELSE s
Trim(s) == TrimEnd(TrimStart(s))

\* str::ends_with
EndsWith(s, suffix) ==
    /\ Len(suffix) <= Len(s)
    /\ SubSeq(s, Len(s) - Len(suffix) + 1, Len(s)) = suffix

\* The instants chrono::Utc::now() returns, in seconds since the epoch
\* (all within January 1970, so the calendar part is the day of the month).
Times == {61 * k : k \in 0..(NumTimes - 1)}

TwoDigits(n) == <<48 + (n \div 10), 48 + (n % 10)>>
Day(t) == TwoDigits(1 + (t \div 86400))
Hour(t) == TwoDigits((t \div 3600) % 24)
Minute(t) == TwoDigits((t \div 60) % 60)
Second(t) == TwoDigits(t % 60)

\* now.format("%y-%m-%d"), ui.rs:60
FormatDate(t) == <<55, 48, 45, 48, 49, 45>> \o Day(t)
\* now.format("%y-%m-%d_%H-%M-%S"), ui.rs:72
FormatStamp(t) ==
    FormatDate(t) \o <<95>> \o Hour(t) \o <<45>> \o Minute(t) \o <<45>> \o Second(t)
\* Utc::now().format("%Y-%m-%d_%H-%M"), app.rs:152
FormatMinute(t) ==
    <<49, 57, 55, 48, 45, 48, 49, 45>> \o Day(t) \o <<95>> \o Hour(t)
        \o <<45>> \o Minute(t)

\* format!("notes-{}.{}", stamp, file_format)
StampName(t, file_format) ==
    <<110, 111, 116, 101, 115, 45>> \o FormatStamp(t) \o <<46>> \o file_format

-----------------------------------------------------------------------------
(* Disk operations.                                                        *)

\* The path and every proper prefix of it.
Prefixes(p) == {SubSeq(p, 1, k) : k \in 1..Len(p)}

\* fs::create_dir_all: fails when a component exists as a regular file,
\* succeeds (changing nothing) when the directory is already there.
CreateDirAllFails(p, files) == Prefixes(p) \cap files # {}
CreateDirAll(p, dirs) == dirs \cup Prefixes(p)

\* make_new_folder(parent_folder, new_folder): the directory create_dir_all
\* leaves in existence.  For the names "." and ".." the call makes
\* parent_folder exist and nothing below it.
make_new_folder(parent_folder, new_folder) ==
    IF new_folder = <<46>> \/ new_folder = <<46, 46>> THEN parent_folder
    ELSE Join(parent_folder, new_folder)

\* A variant of the directory choice that ignores target_dir.
NoteDirAlwaysDated(notes_dir, target_dir, now) ==
    Join(<<notes_dir>>, FormatDate(now))

\* create_note_file: the directory the note goes to (ui.rs:54-62)
NoteDir(notes_dir, target_dir, now) ==
    IF IsSome(target_dir) THEN Unwrap(target_dir)
    ELSE Join(<<notes_dir>>, FormatDate(now))

\* A variant of the file name that appends the extension to every name.
NoteFileNameAlwaysAppends(note_name, file_format, now) ==
    IF IsSome(note_name) /\ Trim(Unwrap(note_name)) # <<>>
    THEN Trim(Unwrap(note_name)) \o <<46>> \o file_format
    ELSE StampName(now, file_format)

\* create_note_file: the file name (ui.rs:68-84)
NoteFileName(note_name, file_format, now) ==
    IF IsSome(note_name)
    THEN LET trimmed == Trim(Unwrap(note_name)) IN
         IF trimmed = <<>> THEN StampName(now, file_format)
         ELSE IF EndsWith(trimmed, <<46>> \o file_format) THEN trimmed
         ELSE trimmed \o <<46>> \o file_format
    ELSE StampName(now, file_format)

\* A variant of the creation that opens the file with truncation whether
\* or not it exists.
CreateFileTruncates(file_path, dirs, files, written) ==
    [files |-> IF file_path \in dirs THEN files ELSE files \cup {file_path},
     written |-> written \ {file_path}]

\* create_note_file, ui.rs:89-91: File::create only when nothing exists at
\* file_path; the new file is empty, an existing one keeps its text.
CreateFile(file_path, dirs, files, written) ==
    IF Exists(file_path, dirs, files)
    THEN [files |-> files, written |-> written]
    ELSE [files |-> files \cup {file_path}, written |-> written]

\* create_note_file: file_path (ui.rs:86)
NoteFilePath(notes_dir, note_name, file_format, target_dir, now) ==
    Join(NoteDir(notes_dir, target_dir, now),
         NoteFileName(note_name, file_format, now))

-----------------------------------------------------------------------------
(* src/src/app.rs                                                          *)

Screens == {"Main", "Browsing", "Editing", "CreatingFolder", "Exiting", "Settings"}
Fields == <<"NotesDirectory", "Editor", "FileFormat">>

\* Vec::get(i) of the path list, flattened: Some(path) only for an index
\* in range whose entry is Some(path).
PathAt(sel, paths) ==
    IF IsSome(sel) /\ Unwrap(sel) < Len(paths) THEN paths[Unwrap(sel) + 1] ELSE None

\* A variant of the Ok arm that scans the disk as it is before the
\* handler's own change to it (the reload placed before the creation).
LoadOkBeforeWrite(s, expanded, dirs, files) ==
    CHOOSE r \in
        {[items |-> ItemsOf(rows), paths |-> PathsOf(rows),
          sel |-> IF Len(rows) # 0 THEN Some(0) ELSE None] :
         rows \in {get_files_as_list_items_with_paths(s, expanded, fs_dirs,
                                                      fs_files)}} :
        TRUE

\* A variant of the Ok arm that leaves the cursor on the last row instead of
\* the first.
LoadOkSelectsLast(s, expanded, dirs, files) ==
    CHOOSE r \in
        {[items |-> ItemsOf(rows), paths |-> PathsOf(rows),
          sel |-> IF Len(rows) # 0 THEN Some(Len(rows) - 1) ELSE None] :
         rows \in {get_files_as_list_items_with_paths(s, expanded, dirs, files)}} :
        TRUE

\* load_browse_items, the Ok arm: the new (browse_items, browse_paths,
\* selection).
LoadOk(s, expanded, dirs, files) ==
    CHOOSE r \in
        {[items |-> ItemsOf(rows), paths |-> PathsOf(rows),
          sel |-> IF Len(rows) # 0 THEN Some(0) ELSE None] :
         rows \in {get_files_as_list_items_with_paths(s, expanded, dirs, files)}} :
        TRUE

\* A variant of the Err arm that leaves the path list empty.
LoadErrNoPath ==
    [items |-> << <<ErrorText, FALSE>> >>, paths |-> <<>>, sel |-> None]

\* A variant of the Err arm that puts the cursor on the error row.
LoadErrSelectsFirst ==
    [items |-> << <<ErrorText, FALSE>> >>, paths |-> <<None>>, sel |-> Some(0)]

\* load_browse_items, the Err arm
LoadErr ==
    [items |-> << <<ErrorText, FALSE>> >>, paths |-> <<None>>, sel |-> None]

load_browse_items(scan_ok, s, expanded, dirs, files) ==
    IF scan_ok THEN LoadOk(s, expanded, dirs, files) ELSE LoadErr

\* The scan can fail only on a directory that exists (read_dir fails); a
\* missing notes directory makes the glob empty, not an error.
ScanOutcomes(s, dirs) == IF BaseDir(s) \in dirs THEN {TRUE, FALSE} ELSE {TRUE}

\* A variant of browse_up that wraps from the first row to the last.
browse_up_wraps(sel, items) ==
    IF IsSome(sel)
    THEN (IF Unwrap(sel) > 0 THEN Some(Unwrap(sel) - 1)
          ELSE Some(Len(items) - 1))
    ELSE IF Len(items) # 0 THEN Some(0) ELSE sel

\* browse_up / browse_down: the new selection
browse_up(sel, items) ==
    IF IsSome(sel)
    THEN (IF Unwrap(sel) > 0 THEN Some(Unwrap(sel) - 1) ELSE sel)
    ELSE IF Len(items) # 0 THEN Some(0) ELSE sel

SaturatingSub(a, b) == IF a >= b THEN a - b ELSE 0

\* A variant of browse_down without the test against the last index.
browse_down_unclamped(sel, items) ==
    IF IsSome(sel) THEN Some(Unwrap(sel) + 1)
    ELSE IF Len(items) # 0 THEN Some(0) ELSE sel

browse_down(sel, items) ==
    IF IsSome(sel)
    THEN (IF Unwrap(sel) < SaturatingSub(Len(items), 1)
          THEN Some(Unwrap(sel) + 1) ELSE sel)
    ELSE IF Len(items) # 0 THEN Some(0) ELSE sel

\* A variant of get_selected_file_path that returns whatever path the
\* selected row carries.
get_selected_file_path_any(sel, paths, files) == PathAt(sel, paths)

\* get_selected_file_path
get_selected_file_path(sel, paths, files) ==
    LET path == PathAt(sel, paths) IN
    IF IsSome(path) /\ IsFile(Unwrap(path), files) THEN path ELSE None

\* A variant of get_selected_directory that returns the selected path
\* itself also when it is a file.
get_selected_directory_no_parent(sel, paths, s, dirs, files) ==
    LET path == PathAt(sel, paths) IN
    IF IsSome(path) /\ (IsDir(Unwrap(path), dirs) \/ IsFile(Unwrap(path), files))
    THEN Unwrap(path)
    ELSE BaseDir(s)

\* get_selected_directory
get_selected_directory(sel, paths, s, dirs, files) ==
    LET path == PathAt(sel, paths) IN
    IF IsSome(path) /\ IsDir(Unwrap(path), dirs) THEN Unwrap(path)
    ELSE IF IsSome(path) /\ IsFile(Unwrap(path), files)
         THEN (IF IsSome(Parent(Unwrap(path)))
               THEN Unwrap(Parent(Unwrap(path))) ELSE BaseDir(s))
    ELSE BaseDir(s)

\* toggle_folder_expansion: the directory acted on, None when the selected
\* row is no directory.
ToggleTarget(sel, paths, dirs) ==
    LET path == PathAt(sel, paths) IN
    IF IsSome(path) /\ IsDir(Unwrap(path), dirs) THEN path ELSE None

\* Variants of the toggle: one that only ever inserts, one that on collapse
\* also drops the expanded directories below `path`.
ToggleSetInsertOnly(expanded, path) == expanded \cup {path}
ToggleSetCollapseSubtree(expanded, path) ==
    IF path \in expanded
    THEN {d \in expanded : d # path /\ ~IsUnder(d, path)}
    ELSE expanded \cup {path}

\* toggle_folder_expansion: the new expanded_folders for directory `path`
ToggleSet(expanded, path) ==
    IF path \in expanded THEN expanded \ {path} ELSE expanded \cup {path}

\* A variant of the folder name that stamps the day only.
NewFolderNameDayOnly(input, now) ==
    IF Trim(input) = <<>> THEN FormatDate(now) ELSE Trim(input)

\* A variant of the folder name that keeps the blanks around the name.
NewFolderNameUntrimmed(input, now) ==
    IF Trim(input) = <<>> THEN FormatMinute(now) ELSE input

\* create_new_folder: the folder name (app.rs:151-156)
NewFolderName(input, now) ==
    IF Trim(input) = <<>> THEN FormatMinute(now) ELSE Trim(input)

-----------------------------------------------------------------------------
(* src/src/settings.rs.  The settings file is absent, present but          *)
(* unreadable, readable but not the JSON of a Settings value, or the JSON  *)
(* of a Settings value; serde writes and reads the three strings           *)
(* unchanged, so a valid file is modelled by the value it holds.           *)

\* Settings::default: <home>/notes (kept as one name), "nvim", "md"
DefaultSettings ==
    [notes_directory |-> <<110, 111, 116, 101, 115>>,
     editor |-> <<110, 118, 105, 109>>,
     default_file_format |-> <<109, 100>>]

AbsentFile == [kind |-> "absent", value |-> None]
UnreadableFile == [kind |-> "unreadable", value |-> None]
CorruptFile == [kind |-> "corrupt", value |-> None]
StoredSettings(s) == [kind |-> "valid", value |-> Some(s)]

\* Whether create_dir_all and fs::write of Settings::save went through
SaveOutcomes == {"ok", "failed"}

\* Settings::save: the file afterwards
SettingsSave(s, file, outcome) ==
    IF outcome = "ok" THEN StoredSettings(s) ELSE file

\* Settings::load: the value returned and the file afterwards.  Only the
\* branch for a missing file calls save (settings.rs:55-61); a file that
\* cannot be read or parsed is left as it is.
SettingsLoad(file, outcome) ==
    IF file.kind = "absent"
    THEN [settings |-> DefaultSettings,
          file |-> SettingsSave(DefaultSettings, file, outcome)]
    ELSE IF file.kind = "valid"
    THEN [settings |-> Unwrap(file.value), file |-> file]
    ELSE [settings |-> DefaultSettings, file |-> file]

-----------------------------------------------------------------------------
(* The settings and the disk the program starts with.                      *)

\* The settings Settings::load returned.
LoadedSettings ==
    [notes_directory |-> <<110>>, editor |-> <<118>>,
     default_file_format |-> <<109, 100>>]

\* The notes on disk when the program starts: no notes directory at all, or
\* n/{a.md, sub/{b.md}}.
NotesRoot == <<LoadedSettings.notes_directory>>
NameA == <<97, 46, 109, 100>>
NameB == <<98, 46, 109, 100>>
NameSub == <<115, 117, 98>>
TreeDirs == {NotesRoot, NotesRoot \o <<NameSub>>}
TreeFiles == {NotesRoot \o <<NameA>>, NotesRoot \o <<NameSub, NameB>>}

-----------------------------------------------------------------------------
(* src/src/ui.rs: launch_editor and the key handlers of run_app.           *)

\* The keys that reach the name buffers and the settings buffers.
NameKeyChars == {97, 32, 46, 47}
\* Escape as a character: a control character, which no settings field takes
SettingsKeyChars == {27}

\* What the environment decides: whether the editor process could be
\* spawned, and how a creation on disk ends.
\* "saved": the editor ran and wrote text to the file it was given.
LaunchOutcomes == {"ran", "saved", "spawn_failed"}
CreateOutcomes == {"ok", "mkdir_failed", "create_failed"}

\* launch_editor: the terminal mode it returns in.  A failed spawn returns
\* through `?` at ui.rs:32, before raw mode is enabled again.
launch_editor(outcome) == IF outcome = "spawn_failed" THEN "normal" ELSE "tui"

\* The files that hold text after the editor was started on file_path
EditorWrites(outcome, file_path, files, written) ==
    IF outcome = "saved" /\ file_path \in files THEN written \cup {file_path}
    ELSE written

\* A variant of the filter that accepts every character.
NameCharAcceptsAll(c) == TRUE

\* The name-buffer filter of the Editing and CreatingFolder screens
NameCharAccepted(c) ==
    is_alphanumeric(c) \/ c = 32 \/ c = 45 \/ c = 95 \/ c = 46

FieldIndex(field) == CHOOSE i \in 1..3 : Fields[i] = field

\* The entries created since the start (the start disk is empty or the tree
\* of Init), the notes directory and its date folders not counted;
\* creations stop at MaxCreated.
DateDirs == {Join(NotesRoot, FormatDate(t)) : t \in Times}
Created(dirs, files) ==
    Cardinality((dirs \cup files) \ (TreeDirs \cup TreeFiles \cup DateDirs))

Handling(screen) == running /\ current_screen = screen

\* ---- Main ----
MainQuit ==
    /\ Handling("Main")
    /\ current_screen' = "Exiting"
    /\ UNCHANGED <<current_file, note_name_input, folder_name_input, settings,
                   settings_field_inputs, active_settings_field, selected,
                   browse_items, browse_paths, expanded_folders,
                   target_directory, envVars>>

MainNewNote ==
    /\ Handling("Main")
    /\ current_screen' = "Editing"
    /\ note_name_input' = <<>>
    /\ UNCHANGED <<current_file, folder_name_input, settings,
                   settings_field_inputs, active_settings_field, selected,
                   browse_items, browse_paths, expanded_folders,
                   target_directory, envVars>>

MainBrowse(scan_ok) ==
    /\ Handling("Main")
    /\ scan_ok \in ScanOutcomes(settings, fs_dirs)
    /\ \E r \in {load_browse_items(scan_ok, settings, expanded_folders,
                                     fs_dirs, fs_files)} :
        /\ browse_items' = r.items
        /\ browse_paths' = r.paths
        /\ selected' = r.sel
    /\ current_screen' = "Browsing"
    /\ UNCHANGED <<current_file, note_name_input, folder_name_input, settings,
                   settings_field_inputs, active_settings_field,
                   expanded_folders, target_directory, envVars>>

MainSettings ==
    /\ Handling("Main")
    /\ current_screen' = "Settings"
    /\ settings_field_inputs' = <<settings.notes_directory, settings.editor,
                                  settings.default_file_format>>
    /\ active_settings_field' = None
    /\ UNCHANGED <<current_file, note_name_input, folder_name_input, settings,
                   selected, browse_items, browse_paths, expanded_folders,
                   target_directory, envVars>>

\* Any other key on Main, Esc among them: the `_ => {}` arm.
MainOther ==
    /\ Handling("Main")
    /\ UNCHANGED vars

\* ---- Browsing ----
BrowseEsc ==
    /\ Handling("Browsing")
    /\ current_screen' = "Main"
    /\ UNCHANGED <<current_file, note_name_input, folder_name_input, settings,
                   settings_field_inputs, active_settings_field, selected,
                   browse_items, browse_paths, expanded_folders,
                   target_directory, envVars>>

\* A variant of the quit key on Browsing that ends the loop at once.
BrowseQuitEndsLoop ==
    /\ Handling("Browsing")
    /\ running' = FALSE
    /\ UNCHANGED <<appVars, fs_dirs, fs_files, fs_written, settings_file,
                   terminal>>

BrowseQuit ==
    /\ Handling("Browsing")
    /\ current_screen' = "Exiting"
    /\ UNCHANGED <<current_file, note_name_input, folder_name_input, settings,
                   settings_field_inputs, active_settings_field, selected,
                   browse_items, browse_paths, expanded_folders,
                   target_directory, envVars>>

BrowseUp ==
    /\ Handling("Browsing")
    /\ selected' = browse_up(selected, browse_items)
    /\ UNCHANGED <<current_screen, current_file, note_name_input,
                   folder_name_input, settings, settings_field_inputs,
                   active_settings_field, browse_items, browse_paths,
                   expanded_folders, target_directory, envVars>>

BrowseDown ==
    /\ Handling("Browsing")
    /\ selected' = browse_down(selected, browse_items)
    /\ UNCHANGED <<current_screen, current_file, note_name_input,
                   folder_name_input, settings, settings_field_inputs,
                   active_settings_field, browse_items, browse_paths,
                   expanded_folders, target_directory, envVars>>

BrowseEnter(launch) ==
    /\ Handling("Browsing")
    /\ launch \in LaunchOutcomes
    /\ LET file_path == get_selected_file_path(selected, browse_paths, fs_files) IN
        IF IsSome(file_path)
        THEN /\ terminal' = launch_editor(launch)
             /\ fs_written' = EditorWrites(launch, Unwrap(file_path), fs_files,
                                           fs_written)
             /\ current_file' = file_path
        ELSE UNCHANGED <<terminal, fs_written, current_file>>
    /\ UNCHANGED <<current_screen, note_name_input, folder_name_input, settings,
                   settings_field_inputs, active_settings_field, selected,
                   browse_items, browse_paths, expanded_folders,
                   target_directory, fs_dirs, fs_files, settings_file, running>>

\* A variant of the toggle key that reloads the rows whatever is selected.
BrowseToggleAlwaysReload(scan_ok) ==
    /\ Handling("Browsing")
    /\ scan_ok \in ScanOutcomes(settings, fs_dirs)
    /\ LET path == ToggleTarget(selected, browse_paths, fs_dirs)
           e == IF IsSome(path) THEN ToggleSet(expanded_folders, Unwrap(path))
                ELSE expanded_folders
       IN  \E r \in {load_browse_items(scan_ok, settings, e, fs_dirs, fs_files)} :
             /\ expanded_folders' = e
             /\ browse_items' = r.items
             /\ browse_paths' = r.paths
             /\ selected' = r.sel
    /\ UNCHANGED <<current_screen, current_file, note_name_input,
                   folder_name_input, settings, settings_field_inputs,
                   active_settings_field, target_directory, envVars>>

BrowseToggle(scan_ok) ==
    /\ Handling("Browsing")
    /\ scan_ok \in ScanOutcomes(settings, fs_dirs)
    /\ LET path == ToggleTarget(selected, browse_paths, fs_dirs) IN
        IF IsSome(path)
        THEN \E e \in {ToggleSet(expanded_folders, Unwrap(path))} :
             \E r \in {load_browse_items(scan_ok, settings, e, fs_dirs, fs_files)} :
                 /\ expanded_folders' = e
                 /\ browse_items' = r.items
                 /\ browse_paths' = r.paths
                 /\ selected' = r.sel
        ELSE UNCHANGED <<expanded_folders, browse_items, browse_paths, selected>>
    /\ UNCHANGED <<current_screen, current_file, note_name_input,
                   folder_name_input, settings, settings_field_inputs,
                   active_settings_field, target_directory, envVars>>

BrowseNewNote ==
    /\ Handling("Browsing")
    /\ target_directory' = Some(get_selected_directory(selected, browse_paths,
                                     settings, fs_dirs, fs_files))
    /\ note_name_input' = <<>>
    /\ current_screen' = "Editing"
    /\ UNCHANGED <<current_file, folder_name_input, settings,
                   settings_field_inputs, active_settings_field, selected,
                   browse_items, browse_paths, expanded_folders, envVars>>

BrowseNewFolder ==
    /\ Handling("Browsing")
    /\ target_directory' = Some(get_selected_directory(selected, browse_paths,
                                     settings, fs_dirs, fs_files))
    /\ folder_name_input' = <<>>
    /\ current_screen' = "CreatingFolder"
    /\ UNCHANGED <<current_file, note_name_input, settings,
                   settings_field_inputs, active_settings_field, selected,
                   browse_items, browse_paths, expanded_folders, envVars>>

\* ---- Editing ----
\* A variant of the return that treats a failed editor launch like a failed
\* creation and stays on the input screen.
ReturnScreenIfLaunched(target, launch) ==
    IF launch # "ran" THEN "Editing"
    ELSE IF IsSome(target) THEN "Browsing" ELSE "Main"

\* A variant of the Err arms that gives up and goes back to the list.
LeaveOnError ==
    /\ current_screen' = "Browsing"
    /\ note_name_input' = <<>>
    /\ folder_name_input' = <<>>
    /\ UNCHANGED <<current_file, settings, settings_field_inputs,
                   active_settings_field, selected, browse_items, browse_paths,
                   expanded_folders, target_directory>>

\* The Err arms of the two Enter handlers (ui.rs:580-583, 614-615): the
\* error is printed and no field of App is assigned.
StayOnError == UNCHANGED appVars

\* A variant of the Esc arm that always goes to the Main screen.
EditEscToMain ==
    /\ Handling("Editing")
    /\ current_screen' = "Main"
    /\ note_name_input' = <<>>
    /\ target_directory' = None
    /\ current_file' = None
    /\ UNCHANGED <<folder_name_input, settings, settings_field_inputs,
                   active_settings_field, selected, browse_items, browse_paths,
                   expanded_folders, envVars>>

\* ui.rs:563-575: the screen after launch_editor returned; its result is
\* dropped by `if let Err(_e)`.
ReturnScreen(target, launch) == IF IsSome(target) THEN "Browsing" ELSE "Main"

\* The Enter arm: create_note_file, and on Ok the editor, the return screen
\* and the clearing of the buffer and target_directory.
EditEnter(now, io, launch, scan_ok) ==
    /\ Handling("Editing")
    /\ now \in Times /\ io \in CreateOutcomes /\ launch \in LaunchOutcomes
    /\ scan_ok \in BOOLEAN
    /\ \E note_name \in {IF Trim(note_name_input) = <<>> THEN None
                          ELSE Some(note_name_input)} :
       \E date_dir \in {NoteDir(settings.notes_directory, target_directory, now)} :
       \E file_path \in {NoteFilePath(settings.notes_directory, note_name,
                                      settings.default_file_format,
                                      target_directory, now)} :
       \E dirs1 \in {CreateDirAll(date_dir, fs_dirs)} :
       \E made \in {CreateFile(file_path, dirs1, fs_files, fs_written)} :
       \E files1 \in {made.files} :
       IF io = "mkdir_failed" \/ CreateDirAllFails(date_dir, fs_files)
       THEN \* create_dir_all returned Err: nothing was made
            /\ UNCHANGED envVars
            /\ StayOnError
       ELSE IF io = "create_failed"
       THEN \* File::create returned Err after the directory was made
            /\ ~Exists(file_path, dirs1, fs_files)
            /\ Created(dirs1, fs_files) <= MaxCreated
            /\ fs_dirs' = dirs1
            /\ UNCHANGED <<fs_files, fs_written, settings_file, terminal, running>>
            /\ StayOnError
       ELSE /\ Created(dirs1, files1) <= MaxCreated
            /\ fs_dirs' = dirs1
            /\ fs_files' = files1
            /\ terminal' = launch_editor(launch)
            /\ fs_written' = EditorWrites(launch, file_path, files1, made.written)
            /\ IF IsSome(target_directory)
               THEN /\ scan_ok \in ScanOutcomes(settings, dirs1)
                    /\ current_screen' = ReturnScreen(target_directory, launch)
                    /\ \E r \in {load_browse_items(scan_ok, settings,
                                       expanded_folders, dirs1, files1)} :
                        /\ browse_items' = r.items
                        /\ browse_paths' = r.paths
                        /\ selected' = r.sel
               ELSE /\ current_screen' = ReturnScreen(target_directory, launch)
                    /\ UNCHANGED <<browse_items, browse_paths, selected>>
            /\ note_name_input' = <<>>
            /\ target_directory' = None
            /\ current_file' = Some(file_path)
            /\ UNCHANGED <<folder_name_input, settings, settings_field_inputs,
                           active_settings_field, expanded_folders, settings_file,
                           running>>

EditBackspace ==
    /\ Handling("Editing")
    /\ note_name_input' = IF note_name_input = <<>> THEN <<>>
                          ELSE SubSeq(note_name_input, 1, Len(note_name_input) - 1)
    /\ UNCHANGED <<current_screen, current_file, folder_name_input, settings,
                   settings_field_inputs, active_settings_field, selected,
                   browse_items, browse_paths, expanded_folders,
                   target_directory, envVars>>

EditEsc ==
    /\ Handling("Editing")
    /\ current_screen' = IF IsSome(target_directory) THEN "Browsing" ELSE "Main"
    /\ note_name_input' = <<>>
    /\ target_directory' = None
    /\ current_file' = None
    /\ UNCHANGED <<folder_name_input, settings, settings_field_inputs,
                   active_settings_field, selected, browse_items, browse_paths,
                   expanded_folders, envVars>>

EditChar(c) ==
    /\ Handling("Editing")
    /\ Len(note_name_input) < MaxNameLen
    /\ note_name_input' = IF NameCharAccepted(c) THEN Append(note_name_input, c)
                          ELSE note_name_input
    /\ UNCHANGED <<current_screen, current_file, folder_name_input, settings,
                   settings_field_inputs, active_settings_field, selected,
                   browse_items, browse_paths, expanded_folders,
                   target_directory, envVars>>

\* ---- CreatingFolder ----
\* The Enter arm: App::create_new_folder, and Browsing when it returned Ok.
FolderEnter(now, io, scan_ok) ==
    /\ Handling("CreatingFolder")
    /\ now \in Times /\ io \in {"ok", "mkdir_failed"} /\ scan_ok \in BOOLEAN
    /\ \E parent_folder \in
              {IF IsSome(target_directory) THEN Unwrap(target_directory)
               ELSE get_selected_directory(selected, browse_paths, settings,
                                           fs_dirs, fs_files)} :
       \E new_folder_name \in {NewFolderName(folder_name_input, now)} :
       \E new_folder_path \in {make_new_folder(parent_folder, new_folder_name)} :
       \E dirs1 \in {CreateDirAll(new_folder_path, fs_dirs)} :
       IF io = "mkdir_failed" \/ CreateDirAllFails(new_folder_path, fs_files)
       THEN \* make_new_folder returned Err: `?` leaves before any change
            /\ UNCHANGED envVars
            /\ StayOnError
       ELSE /\ scan_ok \in ScanOutcomes(settings, dirs1)
            /\ Created(dirs1, fs_files) <= MaxCreated
            /\ fs_dirs' = dirs1
            /\ folder_name_input' = <<>>
            /\ target_directory' = None
            /\ \E r \in {load_browse_items(scan_ok, settings, expanded_folders,
                                            dirs1, fs_files)} :
                   /\ browse_items' = r.items
                   /\ browse_paths' = r.paths
                   /\ selected' = r.sel
            /\ current_screen' = "Browsing"
            /\ UNCHANGED <<current_file, note_name_input, settings,
                           settings_field_inputs, active_settings_field,
                           expanded_folders, fs_files, fs_written,
                           settings_file, terminal, running>>

FolderBackspace ==
    /\ Handling("CreatingFolder")
    /\ folder_name_input' = IF folder_name_input = <<>> THEN <<>>
                            ELSE SubSeq(folder_name_input, 1,
                                        Len(folder_name_input) - 1)
    /\ UNCHANGED <<current_screen, current_file, note_name_input, settings,
                   settings_field_inputs, active_settings_field, selected,
                   browse_items, browse_paths, expanded_folders,
                   target_directory, envVars>>

\* A variant of the Esc arm that forgets to reset target_directory.
FolderEscKeepsTarget ==
    /\ Handling("CreatingFolder")
    /\ current_screen' = "Browsing"
    /\ folder_name_input' = <<>>
    /\ UNCHANGED <<current_file, note_name_input, settings,
                   settings_field_inputs, active_settings_field, selected,
                   browse_items, browse_paths, expanded_folders,
                   target_directory, envVars>>

FolderEsc ==
    /\ Handling("CreatingFolder")
    /\ current_screen' = "Browsing"
    /\ folder_name_input' = <<>>
    /\ target_directory' = None
    /\ UNCHANGED <<current_file, note_name_input, settings,
                   settings_field_inputs, active_settings_field, selected,
                   browse_items, browse_paths, expanded_folders, envVars>>

FolderChar(c) ==
    /\ Handling("CreatingFolder")
    /\ Len(folder_name_input) < MaxNameLen
    /\ folder_name_input' = IF NameCharAccepted(c) THEN Append(folder_name_input, c)
                            ELSE folder_name_input
    /\ UNCHANGED <<current_screen, current_file, note_name_input, settings,
                   settings_field_inputs, active_settings_field, selected,
                   browse_items, browse_paths, expanded_folders,
                   target_directory, envVars>>

\* ---- Settings ----
SetUp ==
    /\ Handling("Settings")
    /\ active_settings_field' =
          IF ~IsSome(active_settings_field) THEN Some("NotesDirectory")
          ELSE IF Unwrap(active_settings_field) = "FileFormat" THEN Some("Editor")
          ELSE Some("NotesDirectory")
    /\ UNCHANGED <<current_screen, current_file, note_name_input,
                   folder_name_input, settings, settings_field_inputs, selected,
                   browse_items, browse_paths, expanded_folders,
                   target_directory, envVars>>

\* A variant of the down key that wraps from the last field to the first.
SetDownWraps ==
    /\ Handling("Settings")
    /\ active_settings_field' =
          IF ~IsSome(active_settings_field) THEN Some("NotesDirectory")
          ELSE IF Unwrap(active_settings_field) = "NotesDirectory" THEN Some("Editor")
          ELSE IF Unwrap(active_settings_field) = "Editor" THEN Some("FileFormat")
          ELSE Some("NotesDirectory")
    /\ UNCHANGED <<current_screen, current_file, note_name_input,
                   folder_name_input, settings, settings_field_inputs, selected,
                   browse_items, browse_paths, expanded_folders,
                   target_directory, envVars>>

SetDown ==
    /\ Handling("Settings")
    /\ active_settings_field' =
          IF ~IsSome(active_settings_field) THEN Some("NotesDirectory")
          ELSE IF Unwrap(active_settings_field) = "NotesDirectory" THEN Some("Editor")
          ELSE Some("FileFormat")
    /\ UNCHANGED <<current_screen, current_file, note_name_input,
                   folder_name_input, settings, settings_field_inputs, selected,
                   browse_items, browse_paths, expanded_folders,
                   target_directory, envVars>>

\* App::save_settings: the in-memory settings taken from the buffers (the
\* result of Settings::save is only logged by the callers).
save_settings(inputs) ==
    [notes_directory |-> inputs[1], editor |-> inputs[2],
     default_file_format |-> inputs[3]]

\* A variant of the Enter key that takes the buffers into the settings only
\* when the file could be written.
SetEnterIfSaved ==
    /\ Handling("Settings")
    /\ IF ~IsSome(active_settings_field)
       THEN /\ active_settings_field' = Some("NotesDirectory")
            /\ UNCHANGED <<settings, settings_file>>
       ELSE /\ \E outcome \in SaveOutcomes :
                  /\ settings' = (IF outcome = "ok"
                                  THEN save_settings(settings_field_inputs)
                                  ELSE settings)
                  /\ settings_file' = SettingsSave(settings', settings_file,
                                                   outcome)
            /\ active_settings_field' = None
    /\ UNCHANGED <<current_screen, current_file, note_name_input,
                   folder_name_input, settings_field_inputs, selected,
                   browse_items, browse_paths, expanded_folders,
                   target_directory, fs_dirs, fs_files, fs_written, terminal,
                   running>>

SetEnter ==
    /\ Handling("Settings")
    /\ IF ~IsSome(active_settings_field)
       THEN /\ active_settings_field' = Some("NotesDirectory")
            /\ UNCHANGED <<settings, settings_file>>
       ELSE /\ settings' = save_settings(settings_field_inputs)
            /\ \E outcome \in SaveOutcomes :
                  settings_file' = SettingsSave(settings', settings_file, outcome)
            /\ active_settings_field' = None
    /\ UNCHANGED <<current_screen, current_file, note_name_input,
                   folder_name_input, settings_field_inputs, selected,
                   browse_items, browse_paths, expanded_folders,
                   target_directory, fs_dirs, fs_files, fs_written, terminal,
                   running>>

SetCtrlS ==
    /\ Handling("Settings")
    /\ settings' = save_settings(settings_field_inputs)
    /\ \E outcome \in SaveOutcomes :
          settings_file' = SettingsSave(settings', settings_file, outcome)
    /\ active_settings_field' = None
    /\ UNCHANGED <<current_screen, current_file, note_name_input,
                   folder_name_input, settings_field_inputs, selected,
                   browse_items, browse_paths, expanded_folders,
                   target_directory, fs_dirs, fs_files, fs_written, terminal,
                   running>>

\* A variant of Esc that drops the focus and keeps the edited buffers.
SetEscKeepsEdits ==
    /\ Handling("Settings")
    /\ IF IsSome(active_settings_field)
       THEN /\ active_settings_field' = None
            /\ UNCHANGED <<current_screen, settings_field_inputs>>
       ELSE /\ current_screen' = "Main"
            /\ UNCHANGED <<settings_field_inputs, active_settings_field>>
    /\ UNCHANGED <<current_file, note_name_input, folder_name_input, settings,
                   selected, browse_items, browse_paths, expanded_folders,
                   target_directory, envVars>>

\* A variant of the Esc arm that does nothing when no field is active.
SetEscStays ==
    /\ Handling("Settings")
    /\ IF IsSome(active_settings_field)
       THEN /\ settings_field_inputs' = <<settings.notes_directory, settings.editor,
                                          settings.default_file_format>>
            /\ active_settings_field' = None
            /\ UNCHANGED current_screen
       ELSE UNCHANGED <<current_screen, settings_field_inputs,
                        active_settings_field>>
    /\ UNCHANGED <<current_file, note_name_input, folder_name_input, settings,
                   selected, browse_items, browse_paths, expanded_folders,
                   target_directory, envVars>>

SetEsc ==
    /\ Handling("Settings")
    /\ IF IsSome(active_settings_field)
       THEN /\ settings_field_inputs' = <<settings.notes_directory, settings.editor,
                                          settings.default_file_format>>
            /\ active_settings_field' = None
            /\ UNCHANGED current_screen
       ELSE /\ current_screen' = "Main"
            /\ UNCHANGED <<settings_field_inputs, active_settings_field>>
    /\ UNCHANGED <<current_file, note_name_input, folder_name_input, settings,
                   selected, browse_items, browse_paths, expanded_folders,
                   target_directory, envVars>>

\* A variant of the Backspace arm without the `if let Some(field)` guard:
\* with no field active it shortens the notes-directory buffer.
SetBackspaceNoFocus ==
    /\ Handling("Settings")
    /\ LET idx == IF IsSome(active_settings_field)
                  THEN FieldIndex(Unwrap(active_settings_field)) ELSE 1
           buf == settings_field_inputs[idx]
       IN  settings_field_inputs' =
               [settings_field_inputs EXCEPT
                   ![idx] = IF buf = <<>> THEN <<>>
                            ELSE SubSeq(buf, 1, Len(buf) - 1)]
    /\ UNCHANGED <<current_screen, current_file, note_name_input,
                   folder_name_input, settings, active_settings_field, selected,
                   browse_items, browse_paths, expanded_folders,
                   target_directory, envVars>>

SetBackspace ==
    /\ Handling("Settings")
    /\ IF IsSome(active_settings_field)
       THEN LET idx == FieldIndex(Unwrap(active_settings_field))
                buf == settings_field_inputs[idx]
            IN  settings_field_inputs' =
                    [settings_field_inputs EXCEPT
                        ![idx] = IF buf = <<>> THEN <<>>
                                 ELSE SubSeq(buf, 1, Len(buf) - 1)]
       ELSE UNCHANGED settings_field_inputs
    /\ UNCHANGED <<current_screen, current_file, note_name_input,
                   folder_name_input, settings, active_settings_field, selected,
                   browse_items, browse_paths, expanded_folders,
                   target_directory, envVars>>

SetChar(c) ==
    /\ Handling("Settings")
    /\ IF IsSome(active_settings_field)
       THEN LET field == Unwrap(active_settings_field)
                idx == FieldIndex(field)
                accepted == IF field = "FileFormat" THEN is_alphanumeric(c)
                            ELSE ~is_control(c)
            IN  /\ Len(settings_field_inputs[idx]) < MaxFieldLen
                /\ settings_field_inputs' =
                      IF accepted
                      THEN [settings_field_inputs EXCEPT ![idx] = Append(@, c)]
                      ELSE settings_field_inputs
       ELSE UNCHANGED settings_field_inputs
    /\ UNCHANGED <<current_screen, current_file, note_name_input,
                   folder_name_input, settings, active_settings_field, selected,
                   browse_items, browse_paths, expanded_folders,
                   target_directory, envVars>>

\* A character key on Settings.  The arms for Up and Down also match k, K
\* and j, J (ui.rs:642, 657) and stand before the arm for KeyCode::Char(c)
\* (ui.rs:713), so these four characters never reach it.
FocusUpChars == {107, 75}
FocusDownChars == {106, 74}
SetKey(c) ==
    IF c \in FocusUpChars THEN SetUp
    ELSE IF c \in FocusDownChars THEN SetDown
    ELSE SetChar(c)

\* ---- Exiting ----
ExitYes ==
    /\ Handling("Exiting")
    /\ running' = FALSE
    /\ UNCHANGED <<appVars, fs_dirs, fs_files, fs_written, settings_file,
                   terminal>>

ExitNo ==
    /\ Handling("Exiting")
    /\ current_screen' = "Main"
    /\ UNCHANGED <<current_file, note_name_input, folder_name_input, settings,
                   settings_field_inputs, active_settings_field, selected,
                   browse_items, browse_paths, expanded_folders,
                   target_directory, envVars>>

\* Any other key on Exiting: the `_ => {}` arm.
ExitOther ==
    /\ Handling("Exiting")
    /\ UNCHANGED vars

\* The Esc key: the arm run_app takes for KeyCode::Esc on each screen.
EscKey ==
    \/ MainOther
    \/ BrowseEsc
    \/ EditEsc
    \/ FolderEsc
    \/ SetEsc
    \/ ExitNo

-----------------------------------------------------------------------------
(* The state after construction (App::new) and the specification.          *)

\* App::new around the settings s that Settings::load returned.
AppNewFrom(s) ==
    /\ current_screen = "Main"
    /\ current_file = None
    /\ note_name_input = <<>>
    /\ folder_name_input = <<>>
    /\ settings = s
    /\ settings_field_inputs = <<s.notes_directory, s.editor,
                                 s.default_file_format>>
    /\ active_settings_field = None
    /\ selected = None
    /\ browse_items = <<>>
    /\ browse_paths = <<>>
    /\ expanded_folders = {}
    /\ target_directory = None

AppNew == AppNewFrom(LoadedSettings)

Init ==
    /\ AppNew
    /\ \/ fs_dirs = {} /\ fs_files = {}
       \/ fs_dirs = TreeDirs /\ fs_files = TreeFiles
    /\ fs_written = fs_files
    /\ settings_file = StoredSettings(settings)
    /\ terminal = "tui"
    /\ running = TRUE

\* The key handlers except the two that edit the settings buffers, which
\* NextKeys adds: on leaving the Settings screen the buffers equal the
\* settings again, so here they stay as App::new set them.
Next ==
    \/ MainQuit
    \/ MainNewNote
    \/ \E scan_ok \in BOOLEAN : MainBrowse(scan_ok)
    \/ MainSettings
    \/ MainOther
    \/ BrowseEsc
    \/ BrowseQuit
    \/ BrowseUp
    \/ BrowseDown
    \/ \E launch \in LaunchOutcomes : BrowseEnter(launch)
    \/ \E scan_ok \in BOOLEAN : BrowseToggle(scan_ok)
    \/ BrowseNewNote
    \/ BrowseNewFolder
    \/ \E now \in Times, io \in CreateOutcomes, launch \in LaunchOutcomes,
          scan_ok \in BOOLEAN : EditEnter(now, io, launch, scan_ok)
    \/ EditBackspace
    \/ EditEsc
    \/ \E c \in NameKeyChars : EditChar(c)
    \/ \E now \in Times, io \in CreateOutcomes, scan_ok \in BOOLEAN :
          FolderEnter(now, io, scan_ok)
    \/ FolderBackspace
    \/ FolderEsc
    \/ \E c \in NameKeyChars : FolderChar(c)
    \/ SetUp
    \/ SetDown
    \/ SetEnter
    \/ SetCtrlS
    \/ SetEsc
    \/ ExitYes
    \/ ExitNo
    \/ ExitOther

Spec == Init /\ [][Next]_vars

\* Every key handler of run_app, the two that edit the settings buffers
\* included, over a disk that already holds a folder inside sub.
NameDeep == <<97>>
DeepDir == Join(Join(NotesRoot, NameSub), NameDeep)

InitKeys ==
    /\ AppNew
    /\ fs_dirs = TreeDirs \cup {DeepDir}
    /\ fs_files = TreeFiles
    /\ fs_written = fs_files
    /\ settings_file = StoredSettings(settings)
    /\ terminal = "tui"
    /\ running = TRUE

NextKeys ==
    \/ Next
    \/ SetBackspace
    \/ \E c \in SettingsKeyChars : SetChar(c)

SpecKeys == InitKeys /\ [][NextKeys]_vars

-----------------------------------------------------------------------------
(* Starting the program over the settings file it finds: Settings::load    *)
(* inside App::new, the Settings screen, and leaving the program.          *)

\* The settings files a start can find that this program did not write.
OtherSettings ==
    [notes_directory |-> <<110>>, editor |-> <<101>>,
     default_file_format |-> <<116>>]
FoundFiles ==
    {AbsentFile, UnreadableFile, CorruptFile, StoredSettings(LoadedSettings),
     StoredSettings(OtherSettings)}

\* The state App::new leaves when the settings file is `found` and the save
\* inside Settings::load, if it is reached, ends with `outcome`.
Started(found, outcome) ==
    \E r \in {SettingsLoad(found, outcome)} :
       /\ AppNewFrom(r.settings)
       /\ settings_file = r.file
       /\ terminal = "tui"
       /\ running = TRUE

\* The program is started again after it was left.  The file it finds is
\* the one the last run left or one put there in between.
AppStart(found, outcome) ==
    /\ ~running
    /\ \E r \in {SettingsLoad(found, outcome)} :
          /\ current_screen' = "Main"
          /\ current_file' = None
          /\ note_name_input' = <<>>
          /\ folder_name_input' = <<>>
          /\ settings' = r.settings
          /\ settings_field_inputs' = <<r.settings.notes_directory,
                                        r.settings.editor,
                                        r.settings.default_file_format>>
          /\ active_settings_field' = None
          /\ selected' = None
          /\ browse_items' = <<>>
          /\ browse_paths' = <<>>
          /\ expanded_folders' = {}
          /\ target_directory' = None
          /\ settings_file' = r.file
    /\ terminal' = "tui"
    /\ running' = TRUE
    /\ UNCHANGED <<fs_dirs, fs_files, fs_written>>

InitLoad ==
    /\ \E found \in FoundFiles, outcome \in SaveOutcomes :
          Started(found, outcome)
    /\ fs_dirs = {} /\ fs_files = {} /\ fs_written = {}

NextLoad ==
    \/ \E found \in FoundFiles \cup {settings_file}, outcome \in SaveOutcomes :
          AppStart(found, outcome)
    \/ MainQuit
    \/ MainSettings
    \/ SetUp
    \/ SetDown
    \/ SetEnter
    \/ SetCtrlS
    \/ SetEsc
    \/ SetBackspace
    \/ \E c \in SettingsKeyChars : SetChar(c)
    \/ ExitYes
    \/ ExitNo

SpecLoad == InitLoad /\ [][NextLoad]_vars

-----------------------------------------------------------------------------
(* Typing on the Settings screen.                                          *)

\* The characters typed: k, j, a, a dot, and Escape as a character.
TypeChars == {107, 106, 97, 46, 27}

InitType ==
    /\ AppNewFrom(OtherSettings)
    /\ fs_dirs = {} /\ fs_files = {} /\ fs_written = {}
    /\ settings_file = StoredSettings(settings)
    /\ terminal = "tui"
    /\ running = TRUE

\* The keys that open the screen, move the focus, edit a buffer and cancel;
\* the keys that save are left to NextLoad, so that the settings stay the
\* ones of the start and the buffers are the only thing that grows.
NextType ==
    \/ MainSettings
    \/ SetUp
    \/ SetDown
    \/ SetEsc
    \/ SetBackspace
    \/ \E c \in TypeChars : SetKey(c)

SpecType == InitType /\ [][NextType]_vars

-----------------------------------------------------------------------------
(* Confirming, shortening or dropping a name that was typed on the Editing *)
(* or the CreatingFolder screen.                                           *)

NameTodo == <<116, 111, 100, 111>>
DotMd == <<46, 109, 100>>
\* The names typed: nothing, a blank, todo, todo.md, todo between blanks,
\* .md, md, a dot, two dots, sub (a folder of the start disk) and sub
\* between blanks.
TypedNames ==
    {<<>>, <<32>>, NameTodo, NameTodo \o DotMd, <<32>> \o NameTodo \o <<32>>,
     DotMd, <<109, 100>>, <<46>>, <<46, 46>>, NameSub,
     <<32>> \o NameSub \o <<32>>}

\* The rows of the first Browsing screen over the start disk.
FirstRows == load_browse_items(TRUE, LoadedSettings, {}, TreeDirs, TreeFiles)

\* The program after `name` was typed on an input screen.  sel = None: the
\* screen was entered from Main; sel = Some(i): it was entered from the
\* first Browsing screen with row i selected.
Typed(screen, name, sel) ==
    /\ current_screen = screen
    /\ current_file = None
    /\ note_name_input = (IF screen = "Editing" THEN name ELSE <<>>)
    /\ folder_name_input = (IF screen = "CreatingFolder" THEN name ELSE <<>>)
    /\ settings = LoadedSettings
    /\ settings_field_inputs = <<settings.notes_directory, settings.editor,
                                 settings.default_file_format>>
    /\ active_settings_field = None
    /\ expanded_folders = {}
    /\ selected = sel
    /\ IF IsSome(sel)
       THEN /\ browse_items = FirstRows.items
            /\ browse_paths = FirstRows.paths
            /\ target_directory =
                   Some(get_selected_directory(sel, FirstRows.paths,
                                               LoadedSettings, TreeDirs,
                                               TreeFiles))
       ELSE /\ browse_items = <<>>
            /\ browse_paths = <<>>
            /\ target_directory = None

InitNames ==
    /\ \E name \in TypedNames :
          \/ Typed("Editing", name, None)
          \/ \E i \in 0..(Len(FirstRows.items) - 1) :
                \/ Typed("Editing", name, Some(i))
                \/ Typed("CreatingFolder", name, Some(i))
    /\ fs_dirs = TreeDirs
    /\ fs_files = TreeFiles
    /\ fs_written = fs_files
    /\ settings_file = StoredSettings(settings)
    /\ terminal = "tui"
    /\ running = TRUE

NextNames ==
    \/ \E now \in Times, io \in CreateOutcomes, launch \in LaunchOutcomes,
          scan_ok \in BOOLEAN : EditEnter(now, io, launch, scan_ok)
    \/ EditBackspace
    \/ EditEsc
    \/ \E now \in Times, io \in CreateOutcomes, scan_ok \in BOOLEAN :
          FolderEnter(now, io, scan_ok)
    \/ FolderBackspace
    \/ FolderEsc

SpecNames == InitNames /\ [][NextNames]_vars

-----------------------------------------------------------------------------
(* The projector on its own: the disk below the notes directory and the    *)
(* expansion set are grown freely, and every step ends with                *)
(* load_browse_items, so that the stored rows are the projection of the    *)
(* current disk under the current expansion set.                           *)

\* "a" and "a-": as one string "a-" sorts before "a/x", as components "a"
\* sorts before "a-".
ProjNames == {<<97>>, <<97, 45>>}

ProjReload(expanded, dirs, files) ==
    \E r \in {load_browse_items(TRUE, settings, expanded, dirs, files)} :
    /\ browse_items' = r.items
    /\ browse_paths' = r.paths
    /\ selected' = r.sel

ProjFrame ==
    UNCHANGED <<current_screen, current_file, note_name_input, folder_name_input,
                settings, settings_field_inputs, active_settings_field,
                target_directory, fs_written, settings_file, terminal, running>>

ProjMkdir(parent, name) ==
    /\ parent \in fs_dirs /\ name \in ProjNames
    /\ ~Exists(Join(parent, name), fs_dirs, fs_files)
    /\ Len(parent) <= MaxDepth
    /\ Cardinality(fs_dirs \cup fs_files) <= MaxNodes
    /\ fs_dirs' = fs_dirs \cup {Join(parent, name)}
    /\ UNCHANGED <<fs_files, expanded_folders>>
    /\ ProjReload(expanded_folders, fs_dirs', fs_files)
    /\ ProjFrame

ProjTouch(parent, name) ==
    /\ parent \in fs_dirs /\ name \in ProjNames
    /\ ~Exists(Join(parent, name), fs_dirs, fs_files)
    /\ Len(parent) <= MaxDepth
    /\ Cardinality(fs_dirs \cup fs_files) <= MaxNodes
    /\ fs_files' = fs_files \cup {Join(parent, name)}
    /\ UNCHANGED <<fs_dirs, expanded_folders>>
    /\ ProjReload(expanded_folders, fs_dirs, fs_files')
    /\ ProjFrame

ProjToggle(path) ==
    /\ path \in fs_dirs \ {BaseDir(settings)}
    /\ expanded_folders' = ToggleSet(expanded_folders, path)
    /\ UNCHANGED <<fs_dirs, fs_files>>
    /\ ProjReload(expanded_folders', fs_dirs, fs_files)
    /\ ProjFrame

InitProj ==
    /\ current_screen = "Browsing"
    /\ current_file = None
    /\ note_name_input = <<>>
    /\ folder_name_input = <<>>
    /\ settings = LoadedSettings
    /\ settings_field_inputs = <<settings.notes_directory, settings.editor,
                                 settings.default_file_format>>
    /\ active_settings_field = None
    /\ expanded_folders = {}
    /\ target_directory = None
    /\ fs_dirs = {NotesRoot} /\ fs_files = {}
    /\ \E r \in {load_browse_items(TRUE, settings, expanded_folders,
                                     fs_dirs, fs_files)} :
        /\ browse_items = r.items
        /\ browse_paths = r.paths
        /\ selected = r.sel
    /\ fs_written = {}
    /\ settings_file = StoredSettings(settings)
    /\ terminal = "tui"
    /\ running = TRUE

NextProj ==
    \/ \E parent \in fs_dirs, name \in ProjNames : ProjMkdir(parent, name)
    \/ \E parent \in fs_dirs, name \in ProjNames : ProjTouch(parent, name)
    \/ \E path \in fs_dirs : ProjToggle(path)

SpecProj == InitProj /\ [][NextProj]_vars

-----------------------------------------------------------------------------
(* Properties of the projector, checked under SpecProj.                    *)

\* The entries below the notes directory, and the ancestor directories of
\* an entry strictly below the notes directory.
Descendants == {p \in fs_dirs \cup fs_files : IsUnder(p, BaseDir(settings))}
AncestorsBelowRoot(p) == {SubSeq(p, 1, k) : k \in 2..(Len(p) - 1)}
HasRow(p) == \E i \in 1..Len(browse_paths) : browse_paths[i] = Some(p)

\* C1: a path below the notes directory has a row in the projection if and
\* only if every ancestor directory of it strictly below the notes
\* directory is in the expansion set.
C1_Visibility ==
    \A p \in Descendants :
        HasRow(p) <=> (\A a \in AncestorsBelowRoot(p) : a \in expanded_folders)

\* C1 witness: an entry below the top level is shown because its parent is
\* expanded, while another is hidden below a collapsed directory although
\* its own parent is expanded.
C1_Witness ==
    /\ \E p \in Descendants :
          Len(p) = 3 /\ HasRow(p) /\ AncestorsBelowRoot(p) \subseteq expanded_folders
    /\ \E q \in Descendants :
          /\ Len(q) = 4 /\ ~HasRow(q)
          /\ SubSeq(q, 1, 3) \in expanded_folders
          /\ SubSeq(q, 1, 2) \notin expanded_folders

\* C4: the projection is the Root header followed by the visible paths in
\* depth-first pre-order: rows ascend strictly in the order that compares
\* paths component by component (a directory before its descendants,
\* siblings by name), no path has two rows, and the first child of an
\* expanded directory is the row right after the directory's row.
IsHeaderRoot(i) == browse_items[i][1] = RootText /\ browse_paths[i] = None
Children(d) == {p \in fs_dirs \cup fs_files : Parent(p) = Some(d)}
C4_RowOrder ==
    /\ Len(browse_items) >= 1 /\ IsHeaderRoot(1)
    /\ \A i \in 2..Len(browse_paths) : IsSome(browse_paths[i])
    /\ \A i, j \in 2..Len(browse_paths) :
          i < j => PathLess(Unwrap(browse_paths[i]), Unwrap(browse_paths[j]))
    /\ \A i \in 2..Len(browse_paths) :
          LET d == Unwrap(browse_paths[i]) IN
          (d \in fs_dirs /\ d \in expanded_folders /\ Children(d) # {})
            => /\ i < Len(browse_paths)
               /\ Unwrap(browse_paths[i + 1]) \in Children(d)
               /\ \A c \in Children(d) \ {Unwrap(browse_paths[i + 1])} :
                     StrLess(FileName(Unwrap(browse_paths[i + 1])), FileName(c))

\* C4 witness: directory "a" is expanded with a child and has the sibling
\* "a-": the rows are Root, a, a/<child>, a-.
C4_Witness ==
    /\ Len(browse_paths) = 4
    /\ browse_paths[2] = Some(NotesRoot \o << <<97>> >>)
    /\ IsSome(browse_paths[3]) /\ Len(Unwrap(browse_paths[3])) = 3
    /\ browse_paths[4] = Some(NotesRoot \o << <<97, 45>> >>)

-----------------------------------------------------------------------------
(* Properties of the application state, checked under Spec.                *)

\* The rows are those of a successful scan: the first row is the Root
\* header (a failed scan leaves the single error row).
LastScanOk == browse_items # <<>> /\ browse_items[1][1] = RootText
RowIsHeader(i) == browse_items[i][1].glyph \in {"Root", "Error"}
SelectedPath == PathAt(selected, browse_paths)
CreatedEntries == (fs_dirs \cup fs_files) \ (TreeDirs \cup TreeFiles \cup DateDirs)

\* C2: whenever the Browsing screen is active and the last scan succeeded,
\* the stored rows and paths are the projection of the disk as it is now
\* under the expansion set as it is now.
C2_NoStaleView ==
    (current_screen = "Browsing" /\ LastScanOk) =>
        \E rows \in {get_files_as_list_items_with_paths(
                         settings, expanded_folders, fs_dirs, fs_files)} :
            /\ browse_paths = PathsOf(rows)
            /\ browse_items = ItemsOf(rows)

\* C2 witness: on Browsing after a creation through the tool, with a
\* directory expanded and the created entry among the rows.
C2_Witness ==
    /\ current_screen = "Browsing" /\ LastScanOk
    /\ expanded_folders # {}
    /\ \E p \in CreatedEntries : HasRow(p)

\* C3: the row list and the path list have the same length, and the path
\* entry is None exactly for the header rows (Root header, error row).
C3_Alignment ==
    /\ Len(browse_items) = Len(browse_paths)
    /\ \A i \in 1..Len(browse_items) :
          (browse_paths[i] = None) <=> RowIsHeader(i)

\* C3 witness: a header row, a folder row and a file row in one list.
C3_Witness ==
    /\ \E i \in 1..Len(browse_items) : browse_items[i][1].glyph = "dir"
    /\ \E i \in 1..Len(browse_items) :
          browse_items[i][1].glyph = "file" /\ browse_items[i][2]
    /\ RowIsHeader(1)

\* C5 as stated: the cursor is None if and only if the row list is empty,
\* and otherwise lies in 0..len-1.
C5_NoneIffEmpty ==
    /\ (selected = None) <=> (browse_items = <<>>)
    /\ IsSome(selected) => Unwrap(selected) \in 0..(Len(browse_items) - 1)

\* C5 amended: the cursor is None when the row list is empty, an index
\* always lies in 0..len-1, and the cursor is None over a non-empty list
\* only when the list is the single error row of a failed scan.
C5_CursorInRange ==
    /\ browse_items = <<>> => selected = None
    /\ IsSome(selected) => Unwrap(selected) \in 0..(Len(browse_items) - 1)
    /\ (selected = None /\ browse_items # <<>>) =>
            (browse_items = LoadErr.items /\ browse_paths = LoadErr.paths)

\* C5 witness: the cursor was moved down to the last of at least three rows.
C5_Witness ==
    /\ Len(browse_items) >= 3
    /\ selected = Some(Len(browse_items) - 1)

\* C6: target_directory is None on every screen other than Editing and
\* CreatingFolder.
C6_TargetCleared ==
    current_screen \in {"Main", "Browsing", "Settings", "Exiting"}
        => target_directory = None

\* C6 witness: back on Browsing after a note was created inside the
\* directory chosen on the Browsing screen (so target_directory was set).
C6_Witness ==
    /\ current_screen = "Browsing"
    /\ target_directory = None
    /\ IsSome(current_file)
    /\ Unwrap(current_file) \in CreatedEntries
    /\ Parent(Unwrap(current_file)) = Some(Join(NotesRoot, NameSub))

\* C7: toggling a directory D, selecting D again in the re-projected rows
\* and toggling once more gives back the expansion set the first toggle
\* started from; D still has a row after the first toggle.
C7_ToggleTwice ==
    (current_screen = "Browsing" /\ IsSome(ToggleTarget(selected, browse_paths, fs_dirs)))
    => \E d \in {Unwrap(ToggleTarget(selected, browse_paths, fs_dirs))} :
       \E e1 \in {ToggleSet(expanded_folders, d)} :
       \E r \in {load_browse_items(TRUE, settings, e1, fs_dirs, fs_files)} :
          /\ \E j \in 0..(Len(r.paths) - 1) : r.paths[j + 1] = Some(d)
          /\ \A j \in 0..(Len(r.paths) - 1) :
                r.paths[j + 1] = Some(d) =>
                    /\ ToggleTarget(Some(j), r.paths, fs_dirs) = Some(d)
                    /\ ToggleSet(e1, d) = expanded_folders
          /\ (d \in e1) <=> (d \notin expanded_folders)

\* C7 witness: the selected row is a directory that is expanded, with
\* another directory expanded as well.
C7_Witness ==
    /\ current_screen = "Browsing"
    /\ IsSome(ToggleTarget(selected, browse_paths, fs_dirs))
    /\ Unwrap(SelectedPath) \in expanded_folders
    /\ Cardinality(expanded_folders) >= 2

\* C8: a toggle key press while the selected row is a file, a header or
\* nothing changes no variable at all.
C8_ToggleNoOp ==
    [][ (/\ \E scan_ok \in BOOLEAN : BrowseToggle(scan_ok)
         /\ \/ ~IsSome(SelectedPath)
            \/ IsFile(Unwrap(SelectedPath), fs_files))
        => UNCHANGED vars ]_vars

\* C8 witness: the Browsing screen with the cursor on a file row below the
\* first rows, a directory being expanded.
C8_Witness ==
    /\ current_screen = "Browsing"
    /\ IsSome(SelectedPath) /\ IsFile(Unwrap(SelectedPath), fs_files)
    /\ Unwrap(selected) >= 2
    /\ expanded_folders # {}

\* C9: the expansion set changes only in a step taken on the Browsing
\* screen with a directory D selected, and then by exactly D: D is added
\* when absent and removed when present, every other member staying.
C9_OnlyToggle ==
    [][ expanded_folders' # expanded_folders =>
          /\ current_screen = "Browsing" /\ current_screen' = "Browsing"
          /\ IsSome(ToggleTarget(selected, browse_paths, fs_dirs))
          /\ \E d \in {Unwrap(SelectedPath)} :
                IF d \in expanded_folders
                THEN expanded_folders' = expanded_folders \ {d}
                ELSE expanded_folders' = expanded_folders \cup {d} ]_vars

\* C9 witness: a directory is collapsed while a directory below it is
\* still in the expansion set.
C9_Witness ==
    \E d \in expanded_folders :
        \E a \in fs_dirs : IsUnder(d, a) /\ Len(a) >= 2 /\ a \notin expanded_folders

\* C10: an Enter on Editing whose note creation succeeds leads to Browsing
\* with the rows of a fresh scan of the new disk when target_directory was
\* set and to Main otherwise, empties the note-name buffer, clears
\* target_directory and records the created file, which exists, as current
\* file; all this for either outcome of the editor launch.
EditSucceeds(now) ==
    ~CreateDirAllFails(NoteDir(settings.notes_directory, target_directory, now),
                       fs_files)
EnteredNotePath(now) ==
    NoteFilePath(settings.notes_directory,
                 IF Trim(note_name_input) = <<>> THEN None
                 ELSE Some(note_name_input),
                 settings.default_file_format, target_directory, now)
C10_EditConfirm ==
    [][ \A now \in Times, launch \in LaunchOutcomes, scan_ok \in BOOLEAN :
          (/\ current_screen = "Editing"
           /\ EditSucceeds(now)
           /\ EditEnter(now, "ok", launch, scan_ok)) =>
            /\ current_screen' = (IF IsSome(target_directory) THEN "Browsing"
                                  ELSE "Main")
            /\ note_name_input' = <<>>
            /\ target_directory' = None
            /\ current_file' = Some(EnteredNotePath(now))
            /\ Exists(EnteredNotePath(now), fs_dirs', fs_files')
            /\ IF IsSome(target_directory)
               THEN \E r \in {load_browse_items(scan_ok, settings, expanded_folders,
                                                 fs_dirs', fs_files')} :
                       /\ browse_items' = r.items
                       /\ browse_paths' = r.paths
                       /\ selected' = r.sel
               ELSE UNCHANGED <<browse_items, browse_paths, selected>> ]_vars

\* C10 witness: a note was created from the Browsing screen, the editor
\* could not be started, and the screen is Browsing again with the new
\* file recorded and shown.
C10_Witness ==
    /\ current_screen = "Browsing" /\ LastScanOk
    /\ terminal = "normal"
    /\ note_name_input = <<>> /\ target_directory = None
    /\ IsSome(current_file) /\ Unwrap(current_file) \in CreatedEntries
    /\ Unwrap(current_file) \in fs_files
    /\ HasRow(Unwrap(current_file))

-----------------------------------------------------------------------------
(* Cancelling and confirming on the Editing and CreatingFolder screens,    *)
(* checked under Spec.                                                     *)

HasRowNext(p) == \E i \in 1..Len(browse_paths') : browse_paths'[i] = Some(p)
FolderParent ==
    IF IsSome(target_directory) THEN Unwrap(target_directory)
    ELSE get_selected_directory(selected, browse_paths, settings, fs_dirs, fs_files)
EditFails(now, io) ==
    io # "ok" \/ CreateDirAllFails(NoteDir(settings.notes_directory,
                                           target_directory, now), fs_files)
FolderFails(now, io) ==
    io # "ok" \/ CreateDirAllFails(make_new_folder(FolderParent,
                                       NewFolderName(folder_name_input, now)),
                                   fs_files)

\* C11: Esc on Editing empties the note-name buffer, sets target_directory
\* to None, changes nothing on disk, and goes to Browsing when
\* target_directory was set and to Main otherwise.
C11_EditCancel ==
    [][ EditEsc =>
          /\ current_screen' = (IF IsSome(target_directory) THEN "Browsing"
                                ELSE "Main")
          /\ note_name_input' = <<>>
          /\ target_directory' = None
          /\ UNCHANGED <<fs_dirs, fs_files, fs_written>> ]_vars

\* C11 witness: Browsing with no current file and no target although a note
\* was confirmed from Main earlier (its file lies in a date folder, and the
\* confirm recorded it): only a cancel on Editing drops that record.
C11_Witness ==
    /\ current_screen = "Browsing" /\ LastScanOk
    /\ current_file = None
    /\ note_name_input = <<>> /\ target_directory = None
    /\ \E d \in DateDirs \cap fs_dirs : \E f \in fs_files : IsUnder(f, d)

\* C12: an Enter on Editing or CreatingFolder whose creation fails leaves
\* the screen, the name buffer, target_directory, the rows, the paths and
\* the cursor as they were.  (A failed creation reaches neither the editor
\* nor the scan, so one value of these two inputs stands for all.)
C12_FailureStays ==
    [][ /\ \A now \in Times, io \in CreateOutcomes :
             (/\ current_screen = "Editing"
              /\ EditFails(now, io)
              /\ EditEnter(now, io, "ran", TRUE)) =>
                UNCHANGED <<current_screen, note_name_input, target_directory,
                            browse_items, browse_paths, selected>>
        /\ \A now \in Times, io \in {"ok", "mkdir_failed"} :
             (/\ current_screen = "CreatingFolder"
              /\ FolderFails(now, io)
              /\ FolderEnter(now, io, TRUE)) =>
                UNCHANGED <<current_screen, folder_name_input, target_directory,
                            browse_items, browse_paths, selected>> ]_vars

\* C12 witness: still on Editing with a name typed, after a confirm made
\* the date folder and then could not create the file in it.
C12_Witness ==
    /\ current_screen = "Editing"
    /\ note_name_input # <<>>
    /\ \E d \in DateDirs \cap fs_dirs : \A f \in fs_files : ~IsUnder(f, d)

\* C13: an Enter on CreatingFolder that succeeds leaves a folder with the
\* entered name directly under target_directory, empties the folder-name
\* buffer, clears target_directory, and shows Browsing with the rows of a
\* fresh scan.
C13_FolderConfirm ==
    [][ \A now \in Times, scan_ok \in BOOLEAN :
          (/\ current_screen = "CreatingFolder"
           /\ current_screen' = "Browsing"
           /\ FolderEnter(now, "ok", scan_ok)) =>
            /\ Join(FolderParent, NewFolderName(folder_name_input, now))
                   \in fs_dirs'
            /\ folder_name_input' = <<>>
            /\ target_directory' = None
            /\ \E r \in {load_browse_items(scan_ok, settings, expanded_folders,
                                            fs_dirs', fs_files')} :
                  /\ browse_items' = r.items
                  /\ browse_paths' = r.paths ]_vars

C15_NoTruncate ==
    [][ \A now \in Times, launch \in LaunchOutcomes, scan_ok \in BOOLEAN :
          (/\ current_screen = "Editing"
           /\ EditSucceeds(now)
           /\ EditEnter(now, "ok", launch, scan_ok)) =>
            \E p \in {EnteredNotePath(now)} :
               /\ current_file' = Some(p)
               /\ fs_written \subseteq fs_written'
               /\ launch # "saved" => fs_written' = fs_written
               /\ IF Exists(p, fs_dirs, fs_files)
                  THEN fs_files' = fs_files
                  ELSE fs_files' = fs_files \cup {p} ]_vars

\* C15 witness: the note a.md of the start disk, which holds text, is the
\* file recorded by a confirm that came back to the top of the list.
C15_Witness ==
    /\ current_screen = "Browsing" /\ selected = Some(0)
    /\ current_file = Some(Join(NotesRoot, NameA))
    /\ Join(NotesRoot, NameA) \in fs_written
    /\ note_name_input = <<>>

\* C16: a confirmed note lies directly in target_directory when that is
\* set and in the date folder of the notes directory otherwise, and the
\* containing directory exists afterwards; Main enters Editing with no
\* target, Browsing enters it with the directory resolved from the
\* selection, and the keys typed on Editing keep the target.
C16_NoteLocation ==
    [][ /\ MainNewNote => target_directory' = None
        /\ BrowseNewNote =>
             target_directory' = Some(get_selected_directory(
                 selected, browse_paths, settings, fs_dirs, fs_files))
        /\ (current_screen = "Editing" /\ current_screen' = "Editing") =>
             target_directory' = target_directory
        /\ \A now \in Times, launch \in LaunchOutcomes, scan_ok \in BOOLEAN :
             (/\ current_screen = "Editing"
              /\ EditSucceeds(now)
              /\ EditEnter(now, "ok", launch, scan_ok)) =>
               \E d \in {IF IsSome(target_directory) THEN Unwrap(target_directory)
                         ELSE Join(BaseDir(settings), FormatDate(now))} :
                  /\ d \in fs_dirs'
                  /\ IsSome(current_file')
                  /\ Parent(Unwrap(current_file')) = Some(d)
                  /\ Exists(Unwrap(current_file'), fs_dirs', fs_files') ]_vars

\* C16 witness: a note started from Main is in a date folder that did not
\* exist on the start disk.
C16_Witness ==
    /\ current_screen = "Main"
    /\ IsSome(current_file)
    /\ Unwrap(current_file) \in fs_files
    /\ \E d \in DateDirs : Parent(Unwrap(current_file)) = Some(d)

\* C19: the terminal is in TUI mode whenever the event loop is running,
\* in particular after every return of launch_editor.
C19_TerminalRestored == running => terminal = "tui"

-----------------------------------------------------------------------------
(* Loading the settings at start, checked under SpecLoad.                  *)

\* C20: a start returns the stored settings when the file is valid and the
\* defaults otherwise, and when the file was absent or corrupt and the
\* write succeeds the file holds the defaults afterwards.
C20_LoadPersistsDefaults ==
    [][ \A found \in FoundFiles \cup {settings_file} :
          (~running /\ AppStart(found, "ok")) =>
            /\ settings' = (IF found.kind = "valid" THEN Unwrap(found.value)
                            ELSE DefaultSettings)
            /\ found.kind \in {"absent", "corrupt"} =>
                  settings_file' = StoredSettings(DefaultSettings) ]_vars

-----------------------------------------------------------------------------
(* The names given to notes and folders, checked under SpecNames.          *)

\* C17: the file of a confirmed note is named notes-<stamp>.<ext> when the
\* buffer is empty or blank; otherwise it is named by the trimmed buffer,
\* with .<ext> appended unless the trimmed buffer ends with .<ext>; todo
\* and todo.md both give todo.md under the extension md.
C17_NoteNaming ==
    [][ \A now \in Times, launch \in LaunchOutcomes, scan_ok \in BOOLEAN :
          (/\ current_screen = "Editing"
           /\ EditSucceeds(now)
           /\ EditEnter(now, "ok", launch, scan_ok)) =>
            \E t \in {Trim(note_name_input)} :
            \E ext \in {settings.default_file_format} :
            \E name \in {FileName(Unwrap(current_file'))} :
               /\ t = <<>> =>
                    name = <<110, 111, 116, 101, 115, 45>> \o FormatStamp(now)
                               \o <<46>> \o ext
               /\ (t # <<>> /\ EndsWith(t, <<46>> \o ext)) => name = t
               /\ (t # <<>> /\ ~EndsWith(t, <<46>> \o ext)) =>
                    name = t \o <<46>> \o ext
               /\ (ext = <<109, 100>> /\ t \in {NameTodo, NameTodo \o DotMd}) =>
                    name = NameTodo \o DotMd
               /\ ~EndsWith(t, <<46>> \o ext \o <<46>> \o ext) =>
                    ~EndsWith(name, <<46>> \o ext \o <<46>> \o ext) ]_vars

\* C17 witness: the confirmed note is todo.md, it exists, and no file
\* todo.md.md was made.
C17_Witness ==
    /\ IsSome(current_file)
    /\ FileName(Unwrap(current_file)) = NameTodo \o DotMd
    /\ Unwrap(current_file) \in fs_files
    /\ \A f \in fs_files : FileName(f) # NameTodo \o DotMd \o DotMd
    /\ note_name_input = <<>>

\* C18 as stated: a confirm on CreatingFolder that meets no refusal from
\* the disk succeeds and changes nothing when the folder named by the
\* trimmed buffer exists in the chosen directory, and with a non-empty
\* buffer the folder it makes is the one named by the trimmed buffer.
C18_FolderIdempotent ==
    [][ \A now \in Times, scan_ok \in BOOLEAN :
          (/\ current_screen = "CreatingFolder"
           /\ FolderEnter(now, "ok", scan_ok)) =>
            \E t \in {Trim(folder_name_input)} :
               /\ Join(FolderParent, t) \in fs_dirs =>
                    /\ current_screen' = "Browsing"
                    /\ UNCHANGED <<fs_dirs, fs_files, fs_written>>
               /\ (folder_name_input # <<>> /\ current_screen' = "Browsing") =>
                    /\ make_new_folder(FolderParent, t) \in fs_dirs'
                    /\ fs_dirs' \ fs_dirs \subseteq {Join(FolderParent, t)} ]_vars

\* C18 amended: the same, with the trimmed buffer naming the folder when
\* the buffer is not blank, and the minute stamp naming it when the buffer
\* is blank.
C18_FolderIdempotentNonBlank ==
    [][ \A now \in Times, scan_ok \in BOOLEAN :
          (/\ current_screen = "CreatingFolder"
           /\ FolderEnter(now, "ok", scan_ok)) =>
            \E t \in {Trim(folder_name_input)} :
               /\ Join(FolderParent, t) \in fs_dirs =>
                    /\ current_screen' = "Browsing"
                    /\ UNCHANGED <<fs_dirs, fs_files, fs_written>>
               /\ (t # <<>> /\ current_screen' = "Browsing") =>
                    /\ make_new_folder(FolderParent, t) \in fs_dirs'
                    /\ fs_dirs' \ fs_dirs \subseteq {Join(FolderParent, t)}
               /\ (t = <<>> /\ current_screen' = "Browsing") =>
                    /\ Join(FolderParent, FormatMinute(now)) \in fs_dirs'
                    /\ fs_dirs' \ fs_dirs \subseteq
                           {Join(FolderParent, FormatMinute(now))} ]_vars

\* C18 witness: Browsing shows a folder todo in the notes directory, next
\* to the folder sub that was there before, and no folder whose name
\* starts with a blank.
C18_Witness ==
    /\ current_screen = "Browsing"
    /\ HasRow(Join(NotesRoot, NameTodo))
    /\ Join(NotesRoot, NameTodo) \in fs_dirs
    /\ Join(NotesRoot, NameSub) \in fs_dirs
    /\ \A d \in fs_dirs : Head(FileName(d)) # 32

-----------------------------------------------------------------------------
(* Browsing a notes directory that is missing or cannot be scanned,        *)
(* checked under Spec.                                                     *)

ErrorRows == << <<ErrorText, FALSE>> >>

\* C21: the browse key on Main, pressed while the notes directory does not
\* exist, leaves exactly one row, the error row, with path None, and no
\* selection.
C21_MissingRootErrorRow ==
    [][ \A scan_ok \in BOOLEAN :
          (/\ current_screen = "Main"
           /\ BaseDir(settings) \notin fs_dirs
           /\ MainBrowse(scan_ok)) =>
            /\ browse_items' = ErrorRows
            /\ browse_paths' = <<None>>
            /\ selected' = None ]_vars

\* C22: a load whose scan fails leaves the error row alone, with path None
\* and no selection, and the loop goes on; Esc on Browsing leads to Main
\* with the rows kept; the browse key on Main scans again, and when that
\* scan succeeds the rows are the projection of the disk, Root header
\* first, with the cursor on row 0, whatever the rows were before.
C22_ScanFailureRecovers ==
    [][ /\ \A scan_ok \in BOOLEAN :
             (current_screen = "Main" /\ MainBrowse(scan_ok)) =>
               /\ running'
               /\ current_screen' = "Browsing"
               /\ IF scan_ok
                  THEN /\ browse_items'[1] = <<RootText, FALSE>>
                       /\ selected' = Some(0)
                       /\ \E r \in {LoadOk(settings, expanded_folders,
                                           fs_dirs, fs_files)} :
                             /\ browse_items' = r.items
                             /\ browse_paths' = r.paths
                  ELSE /\ browse_items' = ErrorRows
                       /\ browse_paths' = <<None>>
                       /\ selected' = None
        /\ (current_screen = "Browsing" /\ current_screen' = "Browsing"
            /\ LastScanOk /\ browse_items' = ErrorRows) =>
               /\ browse_paths' = <<None>>
               /\ selected' = None
               /\ running'
        /\ BrowseEsc =>
               /\ current_screen' = "Main"
               /\ running'
               /\ UNCHANGED <<browse_items, browse_paths, selected>> ]_vars

\* C22 witness: back on Main, running, with the error row of a failed scan
\* still stored and the notes directory on disk: the next browse key scans
\* again.
C22_Witness ==
    /\ current_screen = "Main" /\ running
    /\ browse_items = ErrorRows /\ browse_paths = <<None>>
    /\ BaseDir(settings) \in fs_dirs

-----------------------------------------------------------------------------
(* Leaving the program, checked under SpecKeys (every key handler).        *)

\* C23: the loop ends only by the yes key on Exiting; the no key and Esc on
\* Exiting lead to Main with the loop running, whatever screen Exiting was
\* entered from, and any other key on Exiting changes nothing.
C23_OnlyExitYesEnds ==
    [][ /\ (running /\ ~running') => (current_screen = "Exiting" /\ ExitYes)
        /\ ExitNo => (current_screen' = "Main" /\ running')
        /\ ExitOther => UNCHANGED vars
        /\ current_screen # "Exiting" => running' = running ]_vars

\* C23 witness: the loop has ended on Exiting, which was entered from a
\* Browsing screen (the rows are loaded and the cursor is below row 0).
C23_Witness ==
    /\ ~running
    /\ current_screen = "Exiting"
    /\ LastScanOk
    /\ IsSome(selected) /\ Unwrap(selected) > 0

-----------------------------------------------------------------------------
(* The Settings screen, checked under SpecLoad.                            *)

\* C24: Enter on Settings with a field active puts the three buffers into
\* the settings, leaves the file holding them or, when the write failed, as
\* it was, clears the active field, and the loop goes on; the settings of a
\* running program change by no other step than a save on Settings, so the
\* values of a failed save stay for the session.
C24_EnterKeepsInMemory ==
    [][ /\ (current_screen = "Settings" /\ IsSome(active_settings_field)
            /\ SetEnter) =>
              /\ settings' = [notes_directory |-> settings_field_inputs[1],
                              editor |-> settings_field_inputs[2],
                              default_file_format |-> settings_field_inputs[3]]
              /\ settings_file' \in {StoredSettings(settings'), settings_file}
              /\ active_settings_field' = None
              /\ current_screen' = "Settings"
              /\ running'
              /\ UNCHANGED settings_field_inputs
        /\ (running /\ settings' # settings) =>
              /\ current_screen = "Settings"
              /\ settings' = [notes_directory |-> settings_field_inputs[1],
                              editor |-> settings_field_inputs[2],
                              default_file_format |-> settings_field_inputs[3]]
        ]_vars

\* C24 witness: on Main, the settings in memory differ from the ones the
\* valid settings file holds: a save failed earlier and its values stayed.
C24_Witness ==
    /\ current_screen = "Main" /\ running
    /\ settings_file.kind = "valid"
    /\ Unwrap(settings_file.value) # settings
    /\ active_settings_field = None

FieldPos(f) == IF IsSome(f) THEN FieldIndex(Unwrap(f)) ELSE 0

\* C30: up and down on Settings move the active field by one position in
\* the order notes directory, editor, file format, stay on the first and on
\* the last field, and enter, up and down with no field active make the
\* first field active; none of them changes a buffer or the settings.
C30_FieldFocus ==
    [][ /\ SetUp =>
             /\ FieldPos(active_settings_field') =
                   (IF FieldPos(active_settings_field) <= 1 THEN 1
                    ELSE FieldPos(active_settings_field) - 1)
             /\ UNCHANGED <<settings_field_inputs, settings, current_screen>>
        /\ SetDown =>
             /\ FieldPos(active_settings_field') =
                   (IF FieldPos(active_settings_field) = 0 THEN 1
                    ELSE IF FieldPos(active_settings_field) = 3 THEN 3
                    ELSE FieldPos(active_settings_field) + 1)
             /\ UNCHANGED <<settings_field_inputs, settings, current_screen>>
        /\ (SetEnter /\ ~IsSome(active_settings_field)) =>
             /\ FieldPos(active_settings_field') = 1
             /\ UNCHANGED <<settings_field_inputs, settings, settings_file,
                            current_screen>> ]_vars

\* C30 witness: the last field, file format, is active.
C30_Witness ==
    /\ current_screen = "Settings"
    /\ active_settings_field = Some("FileFormat")

-----------------------------------------------------------------------------
(* Typing into a settings field, checked under SpecType.                   *)

\* C25: a character typed on Settings while a field is active is appended
\* to the buffer of that field when the field is the file format and the
\* character is alphanumeric, or the field is another one and the
\* character is not a control character; a character the file format
\* rejects changes no buffer; the buffers of the other fields never change.
C25_CharInput ==
    [][ \A c \in TypeChars :
          (/\ current_screen = "Settings"
           /\ IsSome(active_settings_field)
           /\ SetKey(c)) =>
            \E idx \in {FieldIndex(Unwrap(active_settings_field))} :
               /\ \A i \in (1..3) \ {idx} :
                     settings_field_inputs'[i] = settings_field_inputs[i]
               /\ IF idx = 3
                  THEN IF is_alphanumeric(c)
                       THEN settings_field_inputs'[3] =
                               Append(settings_field_inputs[3], c)
                       ELSE UNCHANGED settings_field_inputs
                  ELSE ~is_control(c) =>
                          settings_field_inputs'[idx] =
                              Append(settings_field_inputs[idx], c) ]_vars

-----------------------------------------------------------------------------
(* The keys of the Browsing screen that create nothing, checked under      *)
(* Spec.                                                                   *)

\* C27: up on row 0 and down on the last row keep the cursor, elsewhere
\* they move it by one; with no cursor over a non-empty list both put it on
\* row 0; rows, paths and expanded folders are unchanged.
C27_CursorMoves ==
    [][ /\ BrowseUp =>
             /\ UNCHANGED <<browse_items, browse_paths, expanded_folders>>
             /\ IF IsSome(selected)
                THEN selected' = (IF Unwrap(selected) = 0 THEN selected
                                  ELSE Some(Unwrap(selected) - 1))
                ELSE selected' = (IF browse_items # <<>> THEN Some(0) ELSE None)
        /\ BrowseDown =>
             /\ UNCHANGED <<browse_items, browse_paths, expanded_folders>>
             /\ IF IsSome(selected)
                THEN selected' = (IF Unwrap(selected) = Len(browse_items) - 1
                                  THEN selected
                                  ELSE Some(Unwrap(selected) + 1))
                ELSE selected' = (IF browse_items # <<>> THEN Some(0) ELSE None)
        ]_vars

\* C27 witness: the cursor stands on the last of at least three rows, where
\* only moves can have put it.
C27_Witness ==
    /\ current_screen = "Browsing"
    /\ Len(browse_items) >= 3
    /\ selected = Some(Len(browse_items) - 1)

\* The directory the claim C28 names for the selected row: the path of a
\* folder row, the parent of the path of a file row, the notes directory
\* for a header row, the error row or no selection.
ResolvedDirectory ==
    IF IsSome(SelectedPath) /\ Unwrap(SelectedPath) \in fs_dirs
    THEN Unwrap(SelectedPath)
    ELSE IF IsSome(SelectedPath) /\ Unwrap(SelectedPath) \in fs_files
    THEN SubSeq(Unwrap(SelectedPath), 1, Len(Unwrap(SelectedPath)) - 1)
    ELSE <<settings.notes_directory>>

\* C28: the new-note and new-folder keys on Browsing store that directory
\* as target_directory and show Editing and CreatingFolder; a row with a
\* path is a folder or a file on disk, so the three cases are all there
\* are.
C28_ResolvedTarget ==
    [][ /\ BrowseNewNote =>
             /\ target_directory' = Some(ResolvedDirectory)
             /\ current_screen' = "Editing"
        /\ BrowseNewFolder =>
             /\ target_directory' = Some(ResolvedDirectory)
             /\ current_screen' = "CreatingFolder"
        /\ (current_screen = "Browsing" /\ IsSome(SelectedPath)) =>
             Exists(Unwrap(SelectedPath), fs_dirs, fs_files) ]_vars

\* C28 witness: Editing was entered with a file row of the folder sub
\* selected, and the target is sub, the parent of that file.
C28_Witness ==
    /\ current_screen = "Editing"
    /\ IsSome(SelectedPath)
    /\ Unwrap(SelectedPath) \in fs_files
    /\ target_directory = Some(Join(NotesRoot, NameSub))

\* C29: Enter on Browsing with a file row selected records the file as the
\* current file, and the terminal is in TUI mode afterwards unless the
\* editor could not be started; with any other selection it changes
\* nothing; in every case the screen, the rows, the paths, the cursor, the
\* expanded folders, the target and the set of files and folders on disk
\* are unchanged.
C29_BrowseOpen ==
    [][ \A launch \in LaunchOutcomes :
          (current_screen = "Browsing" /\ BrowseEnter(launch)) =>
            /\ UNCHANGED <<current_screen, browse_items, browse_paths, selected,
                           expanded_folders, target_directory, fs_dirs,
                           fs_files, running>>
            /\ IF IsSome(SelectedPath) /\ Unwrap(SelectedPath) \in fs_files
               THEN /\ current_file' = SelectedPath
                    /\ launch # "spawn_failed" => terminal' = "tui"
                    /\ launch # "saved" => fs_written' = fs_written
               ELSE UNCHANGED vars ]_vars

\* C29 witness: on Browsing the recorded file is the selected file row b.md
\* of the folder sub, a name that no confirm on Editing gives here.
C29_Witness ==
    /\ current_screen = "Browsing"
    /\ IsSome(selected) /\ Unwrap(selected) > 0
    /\ current_file = SelectedPath
    /\ current_file = Some(Join(Join(NotesRoot, NameSub), NameB))

\* ---------------------------------------------------------------------------
\* C31.  Cursor reset on re-projection.

\* The steps that re-project successfully: browse from Main, a toggle on a
\* directory row, a note created from Browsing, a folder created.
Reprojects ==
    \/ MainBrowse(TRUE)
    \/ /\ current_screen = "Browsing"
       /\ IsSome(ToggleTarget(selected, browse_paths, fs_dirs))
       /\ BrowseToggle(TRUE)
    \/ /\ current_screen = "Editing"
       /\ IsSome(target_directory)
       /\ current_screen' = "Browsing"
       /\ \E now \in Times, launch \in LaunchOutcomes :
              EditEnter(now, "ok", launch, TRUE)
    \/ /\ current_screen = "CreatingFolder"
       /\ current_screen' = "Browsing"
       /\ \E now \in Times : FolderEnter(now, "ok", TRUE)

\* C31: every successful re-projection (browse from Main, a toggle on a
\* directory, a note created from Browsing, a folder created) leaves the
\* cursor on index 0, the Root header, whatever row it was on before; a
\* toggle key pressed next, with the cursor unmoved, finds no directory under
\* the cursor and changes nothing.
C31_CursorReset ==
    [][/\ Reprojects
          => /\ selected' = Some(0)
             /\ browse_items'[1] = <<RootText, FALSE>>
             /\ browse_paths'[1] = None
             /\ ToggleTarget(selected', browse_paths', fs_dirs') = None
       /\ (/\ current_screen = "Browsing"
           /\ selected = Some(0)
           /\ browse_items[1] = <<RootText, FALSE>>
           /\ \E scan_ok \in BOOLEAN : BrowseToggle(scan_ok))
          => UNCHANGED vars]_vars

\* A toggle has expanded a directory (its row is below the header, so the
\* cursor was on a later row) and the cursor is back on the Root header.
C31_Witness ==
    /\ current_screen = "Browsing"
    /\ expanded_folders # {}
    /\ selected = Some(0)
    /\ browse_items[1] = <<RootText, FALSE>>
    /\ Len(browse_items) > 2

\* ---------------------------------------------------------------------------
\* C32.  Name buffers.

\* Every character of `name` is alphanumeric, a space, '-', '_' or '.'.
OnlyNameChars(name) ==
    \A i \in 1..Len(name) :
        is_alphanumeric(name[i]) \/ name[i] \in {32, 45, 95, 46}

\* C32: in every reachable state the note-name buffer is empty unless Editing
\* is active and the folder-name buffer is empty unless CreatingFolder is
\* active, and both hold only alphanumeric characters, space, '-', '_' or
\* '.'; every step that enters Editing or CreatingFolder from another screen
\* leaves the buffer of that screen empty.
C32_NameBuffers ==
    /\ [](/\ current_screen # "Editing" => note_name_input = <<>>
          /\ current_screen # "CreatingFolder" => folder_name_input = <<>>
          /\ OnlyNameChars(note_name_input)
          /\ OnlyNameChars(folder_name_input))
    /\ [][/\ (current_screen # "Editing" /\ current_screen' = "Editing")
             => note_name_input' = <<>>
          /\ (current_screen # "CreatingFolder"
              /\ current_screen' = "CreatingFolder")
             => folder_name_input' = <<>>]_vars

\* A folder whose name was typed has been created and the program is back on
\* Browsing: the folder-name buffer held the name and is empty again.
C32_Witness ==
    /\ current_screen = "Browsing"
    /\ folder_name_input = <<>>
    /\ \E d \in CreatedEntries \cap fs_dirs : d[Len(d)] = <<97>>

\* ---------------------------------------------------------------------------
\* C33.  Settings edit mode.

\* C33: in every reachable state a settings field is active only while the
\* Settings screen is active, and whenever no field is active the three
\* settings buffers equal the notes directory, the editor and the file
\* format of the settings in memory.
C33_EditModeConfined ==
    /\ IsSome(active_settings_field) => current_screen = "Settings"
    /\ active_settings_field = None
       => settings_field_inputs = <<settings.notes_directory, settings.editor,
                                    settings.default_file_format>>

\* Back on Main after an edited value was saved from the Settings screen:
\* the settings in memory are none of the values a first start can load, no
\* field is active and the buffers hold the saved values.
C33_Witness ==
    /\ current_screen = "Main"
    /\ active_settings_field = None
    /\ settings \notin {DefaultSettings, LoadedSettings, OtherSettings}
    /\ settings_field_inputs[1] = settings.notes_directory

\* ---------------------------------------------------------------------------
\* C34.  Cancel converges to Main.

\* The number of Esc presses that separate a state from the Main screen.
EscDistance ==
    CASE current_screen = "Main" -> 0
      [] current_screen = "Browsing" -> 1
      [] current_screen = "Exiting" -> 1
      [] current_screen = "Editing" ->
            IF IsSome(target_directory) THEN 2 ELSE 1
      [] current_screen = "CreatingFolder" -> 2
      [] current_screen = "Settings" ->
            IF IsSome(active_settings_field) THEN 2 ELSE 1

\* C34: from every reachable state, pressing only Esc brings the Main screen
\* after at most two presses: every state is at most two Esc presses from
\* Main, away from Main the Esc key has a step and that step brings the
\* state one press closer; no Esc step creates a file or a folder or changes
\* the expanded folders or the settings in memory, and Esc on Main changes
\* nothing.
C34_CancelConverges ==
    /\ [](/\ EscDistance \in 0..2
          /\ (running /\ EscDistance > 0)
             => ENABLED (EscKey /\ EscDistance' = EscDistance - 1))
    /\ [][EscKey
          => /\ EscDistance' = IF EscDistance = 0 THEN 0 ELSE EscDistance - 1
             /\ UNCHANGED <<fs_dirs, fs_files, expanded_folders, settings>>
             /\ current_screen = "Main" => UNCHANGED vars]_vars

\* The Main screen reached by cancelling out of Browsing with a created
\* entry on disk and a folder expanded: both are kept.
C34_Witness ==
    /\ current_screen = "Main" /\ running
    /\ expanded_folders # {}
    /\ CreatedEntries # {}
    /\ current_file = None

====
